---- MODULE Spec2Model ----
(***************************************************************************)
(* Model of the trace retrieval subsystem of datadog-mcp:                  *)
(*   - datadog_client.fetch_traces   (one paged POST to the span search)   *)
(*   - get_traces.handle_call        (initial fetch, child-span expansion, *)
(*                                    extraction, rendering, error         *)
(*                                    boundary)                            *)
(* Python strings whose characters the code inspects are sequences of      *)
(* one-character strings; opaque tokens (cursors, formats) are strings.    *)
(* One action is the code run between two suspension points (awaits).      *)
(***************************************************************************)
EXTENDS Integers, Sequences, FiniteSets, TLC

VARIABLES
    pc,              \* position of handle_call: "idle", "initial", "child", "done"
    request,         \* request.arguments of the running invocation
    response,        \* the initial page returned by fetch_traces (line 85)
    trace_events,    \* trace_events (lines 100, 157)
    idx,             \* position of `for event in trace_events` (line 110), 1-based
    all_spans,       \* all_spans (line 107)
    trace_ids_seen,  \* trace_ids_seen (line 108)
    page_cursor,     \* page_cursor (lines 119, 143)
    page_num,        \* page_num (lines 120, 123)
    traces,          \* traces (line 161)
    result,          \* the CallToolResult returned, or the exception that escaped
    fcall,           \* the most recent fetch_traces call: its arguments and outcome
    fetches,         \* number of fetch_traces calls made by the invocation
    posts,           \* number of upstream POSTs made by the invocation
    seq_count,       \* per trace id: child-expansion sequences started
    fetched,         \* per trace id: the spans of the pages fetched, in fetch order
    first_empty,     \* trace ids whose first child fetch returned no data
    last_page,       \* the response to the most recent child fetch
    prev_after,      \* the cursor returned by the page before it in its sequence
    raised,          \* the stage of the invocation that raised, or "none"
    history          \* the upstream outcomes the invocation received so far, and
                     \* how earlier invocations of the session ended

vars == <<pc, request, response, trace_events, idx, all_spans, trace_ids_seen,
          page_cursor, page_num, traces, result, fcall, fetches, posts,
          seq_count, fetched, first_empty, last_page, prev_after, raised, history>>

(***************************************************************************)
(* Bounds of the model.                                                    *)
(***************************************************************************)
MaxInitial == 2      \* spans in the initial page
MaxPages == 2        \* pages the upstream serves for one trace
MaxStrLen == 2       \* characters of a filter value (fetch_traces inputs)
MaxFilters == 2      \* entries of the filters mapping (fetch_traces inputs)

(***************************************************************************)
(* Python values.                                                          *)
(***************************************************************************)
\* None where a string is expected (a sequence no Python string equals).
None == <<"None">>
\* None where an opaque cursor token is expected.
NoCursor == "None"
\* Python truthiness of an optional string: None and "" are falsy.
Truthy(s) == s # None /\ s # <<>>
\* Python truthiness of an optional cursor token.
TruthyCursor(c) == c # NoCursor /\ c # ""

\* dict.get(key, default) on a mapping modelled as a record.
AttrGet(attrs, key, default) == IF key \in DOMAIN attrs THEN attrs[key] ELSE default

Min(a, b) == IF a < b THEN a ELSE b

Contains(s, c) == \E i \in 1..Len(s) : s[i] = c

(***************************************************************************)
(* datadog_client.fetch_traces                                             *)
(***************************************************************************)
\* One filter term: key:value, the value quoted when it holds a space or colon.
\* A builder that quotes a value on a space only.
FilterTerm_spaceOnly(key, value) ==
    IF Contains(value, " ")
    THEN key \o <<":", "\"">> \o value \o <<"\"">>
    ELSE key \o <<":">> \o value

FilterTerm(key, value) ==
    IF Contains(value, " ") \/ Contains(value, ":")
    THEN key \o <<":", "\"">> \o value \o <<"\"">>
    ELSE key \o <<":">> \o value

\* query_parts: the filter terms in mapping order, then the free-text query.
QueryParts(filters, query) ==
    [i \in 1..Len(filters) |-> FilterTerm(filters[i].key, filters[i].value)]
        \o (IF Truthy(query) THEN <<query>> ELSE <<>>)

AND == <<" ", "A", "N", "D", " ">>

\* " AND ".join(parts)
RECURSIVE Join(_)
Join(parts) ==
    IF Len(parts) = 0 THEN <<>>
    ELSE IF Len(parts) = 1 THEN parts[1]
    ELSE parts[1] \o AND \o Join(Tail(parts))

CombinedQuery(filters, query) ==
    IF QueryParts(filters, query) # <<>> THEN Join(QueryParts(filters, query)) ELSE <<"*">>

\* payload["data"]["attributes"]["page"]["limit"]
PageLimit(limit) == Min(limit, 1000)

\* The request body sent upstream; the cursor key is set only for a truthy cursor.
Payload(time_range, filters, query, limit, cursor) ==
    [from   |-> time_range,
     query  |-> CombinedQuery(filters, query),
     limit  |-> PageLimit(limit),
     cursor |-> IF TruthyCursor(cursor) THEN cursor ELSE NoCursor]

\* Outcomes of the upstream call: a JSON body, or a failure of the POST,
\* of raise_for_status or of response.json().
ErrorKinds == {"HTTPStatusError", "ConnectError", "ReadTimeout", "JSONDecodeError"}

\* A client that logs a failure and returns None instead of re-raising.
fetch_traces_swallows(time_range, filters, query, limit, cursor, up) ==
    [args    |-> [filters |-> filters, query |-> query, limit |-> limit, cursor |-> cursor],
     payload |-> Payload(time_range, filters, query, limit, cursor),
     posts   |-> 1,
     up      |-> up.kind,
     raised  |-> FALSE,
     exc     |-> "",
     value   |-> up.body]

\* fetch_traces: one POST; the body is returned, a failure is re-raised.
fetch_traces(time_range, filters, query, limit, cursor, up) ==
    [args    |-> [filters |-> filters, query |-> query, limit |-> limit, cursor |-> cursor],
     payload |-> Payload(time_range, filters, query, limit, cursor),
     posts   |-> 1,
     up      |-> up.kind,
     raised  |-> up.kind # "ok",
     exc     |-> IF up.kind # "ok" THEN up.kind ELSE "",
     value   |-> up.body]

(***************************************************************************)
(* The upstream span search, as the handler sees it.                       *)
(***************************************************************************)
T1 == <<"t", "1">>
T2 == <<"t", "2">>
TraceIds == {T1, T2}

\* JSON null where an object is expected.
Null == [null |-> TRUE]
IsNull(r) == "null" \in DOMAIN r
\* {} : the default of dict.get(key, {}).
EmptyDict == [empty |-> TRUE]

\* The cursor the upstream hands out with page p of a listing.
CursorNames == <<"c1", "c2", "c3", "c4">>
CursorOf(p) == CursorNames[p]

\* Numbers of spans in one page of a trace.
PageSizes == {0, 1, 3}

\* The raw span events the initial page may hold at position i. A record is
\* the event's attributes mapping; Null is an event whose attributes are null.
InitialEvents(i) ==
    LET id == <<<<"i">>, i, 0>> IN
    { [span_id |-> id],
      [span_id |-> id, trace_id |-> <<>>],
      [span_id |-> id, trace_id |-> T1],
      [span_id |-> id, trace_id |-> T2],
      [span_id |-> id, trace_id |-> T1, service |-> None],
      [span_id |-> id, null |-> TRUE] }

InitialPages ==
    UNION { { p \in [1..n -> UNION {InitialEvents(i) : i \in 1..n}] :
                \A i \in 1..n : p[i] \in InitialEvents(i) } : n \in 0..MaxInitial }

\* The k-th span of page p of the trace tid.
ChildSpan(tid, p, k) == [span_id |-> <<tid, p, k>>, trace_id |-> tid]
ChildPage(tid, p, n) == [k \in 1..n |-> ChildSpan(tid, p, k)]

\* Shapes of the response metadata that end a listing: absent, null, a null
\* page, a page without cursor, an empty cursor.
InitialEndMetas == {EmptyDict, [meta |-> Null], [meta |-> [page |-> [after |-> ""]]]}
ChildEndMetas ==
    {EmptyDict, [meta |-> Null], [meta |-> [page |-> Null]], [meta |-> [page |-> EmptyDict]]}
\* The metadata that announces a further page.
MoreMeta(p) == [meta |-> [page |-> [after |-> CursorOf(p)]]]
\* The cursor the upstream hands out with the initial page: a token of the
\* caller's search, unlike the tokens of the trace_id searches.
InitialCursor == "n1"
InitialMoreMeta == [meta |-> [page |-> [after |-> InitialCursor]]]

Body(data, m) ==
    IF "meta" \in DOMAIN m THEN [data |-> data, meta |-> m.meta] ELSE [data |-> data]

HTTPFailures == {[kind |-> k, body |-> Null] : k \in ErrorKinds}

InitialOutcomes ==
    HTTPFailures
        \cup {[kind |-> "ok", body |-> Null]}
        \cup {[kind |-> "ok", body |-> Body(d, m)] :
                d \in InitialPages, m \in InitialEndMetas \cup {InitialMoreMeta}}

\* meta.page.after of a response, None when a level is absent or null
\* (get_traces.py lines 137-143 and 166-172).
PageAfter(resp) ==
    LET meta0 == AttrGet(resp, "meta", EmptyDict)
        meta == IF IsNull(meta0) THEN EmptyDict ELSE meta0
        page0 == AttrGet(meta, "page", EmptyDict)
        page == IF IsNull(page0) THEN EmptyDict ELSE page0
    IN AttrGet(page, "after", NoCursor)

\* The responses to the p-th child fetch of the trace tid; the upstream's
\* cursor chain ends at page MaxPages.
ChildOutcomes(tid, p) ==
    HTTPFailures
        \cup {[kind |-> "ok", body |-> Null]}
        \cup {[kind |-> "ok", body |-> Body(ChildPage(tid, p, n), m)] :
                n \in PageSizes,
                m \in ChildEndMetas \cup (IF p < MaxPages THEN {MoreMeta(p)} ELSE {})}

(***************************************************************************)
(* get_traces.handle_call                                                  *)
(***************************************************************************)
\* The defaults of args.get (lines 76-82).
Defaults ==
    [time_range |-> "1h", filters |-> <<>>, query |-> None, limit |-> 50,
     cursor |-> "", format |-> "table", include_children |-> FALSE]

\* args.get(key, default), with args = request.arguments or {}.
Arg(req, key) == AttrGet(req, key, Defaults[key])

NoResult == [kind |-> "none"]
NoCall == [up |-> "none"]
NoPage == [ok |-> FALSE, data |-> <<>>, after |-> NoCursor]
\* What is kept of a fetch_traces call: its arguments, its request body and
\* how it ended.
Call(r) ==
    [args |-> r.args, payload |-> r.payload, posts |-> r.posts, up |-> r.up,
     raised |-> r.raised, exc |-> r.exc]

\* The except clause of handle_call: an error-flagged result that echoes the
\* query parameters.
\* A handler without the except clause: the exception leaves handle_call.
HandleException_propagates(req, e) ==
    [isError |-> FALSE, kind |-> "escaped", msg |-> e,
     echo |-> [query |-> None, filters |-> <<>>, time_range |-> ""]]

HandleException(req, e) ==
    [isError |-> TRUE, kind |-> "error", msg |-> e,
     echo |-> [query |-> AttrGet(req, "query", None),
               filters |-> AttrGet(req, "filters", <<>>),
               time_range |-> AttrGet(req, "time_range", "")]]

\* f"trace_id:{trace_id}"
TraceQuery(trace_id) == <<"t", "r", "a", "c", "e", "_", "i", "d", ":">> \o trace_id

\* A handler that expands whatever the flag says.
ExpandsChildren_always(req, data) == data # <<>>

\* Line 106: the child spans are fetched.
ExpandsChildren(req, data) == Arg(req, "include_children") /\ data # <<>>

\* Line 114: the event starts a child expansion.
NeedsExpansion(trace_id, seen) == Truthy(trace_id) /\ trace_id \notin seen

\* Line 131: the child response carries spans.
HasData(child_response) ==
    ~IsNull(child_response) /\ AttrGet(child_response, "data", <<>>) # <<>>

\* A page loop that stops after its first page.
LoopContinues_never(cursor) == FALSE

\* A page loop that ignores the missing cursor.
LoopContinues_always(cursor) == TRUE

\* Line 145: another page is fetched.
LoopContinues(cursor) == TruthyCursor(cursor)

\* An expansion that drops the span of a trace without data.
FallsBack_never(num) == FALSE

\* Line 150: the original span stands in for a trace without data.
FallsBack(num) == num = 1

\* A handler whose set of trace ids outlives the invocation.
NewSeen_shared(seen) == seen

\* Line 108: trace_ids_seen = set(), a new set for every expansion.
NewSeen(seen) == {}

\* `for event in trace_events` from position i up to the next await: events
\* without a new trace id are appended, a null attributes mapping raises.
RECURSIVE Advance(_, _, _, _)
Advance(events, i, spans, seen) ==
    IF i > Len(events)
    THEN [status |-> "end", idx |-> i, all_spans |-> spans, seen |-> seen]
    ELSE IF IsNull(events[i])
    THEN [status |-> "raise", idx |-> i, all_spans |-> spans, seen |-> seen]
    ELSE IF NeedsExpansion(AttrGet(events[i], "trace_id", None), seen)
    THEN [status |-> "fetch", idx |-> i, all_spans |-> spans,
          seen |-> seen \cup {events[i].trace_id}]
    ELSE Advance(events, i + 1, Append(spans, events[i]), seen)

(***************************************************************************)
(* formatters.extract_trace_info and the renderers, as far as the handler  *)
(* depends on them.                                                        *)
(***************************************************************************)
A == <<"a">>
B == <<"b">>
C == <<"c">>

\* A JSON value where the code expects a number: an integer, null or a string.
Num(n) == [type |-> "int", n |-> n]
JNull == [type |-> "null", n |-> 0]
JText == [type |-> "str", n |-> 0]

\* A JSON value where the code expects a timestamp.  "Z" is ISO-8601 text
\* with the Z suffix and "naive" ISO-8601 text without offset, both us
\* microseconds after 2023-01-01T12:00:00; "garbage" is text that is no
\* timestamp, "number" an epoch number, "empty" the string "" and "null"
\* the JSON null.
Ts(kind, us) == [kind |-> kind, us |-> us]
NoTs == Ts("empty", 0)
TruthyTs(ts) == ts.kind \notin {"empty", "null"}

\* datetime.fromisoformat(ts.replace('Z', '+00:00')), lines 610-611: a
\* number has no replace (AttributeError), other text does not parse
\* (ValueError).
fromisoformat(ts) ==
    CASE ts.kind = "Z" -> [exc |-> "none", aware |-> TRUE, us |-> ts.us]
      [] ts.kind = "naive" -> [exc |-> "none", aware |-> FALSE, us |-> ts.us]
      [] ts.kind = "number" -> [exc |-> "AttributeError", aware |-> FALSE, us |-> 0]
      [] OTHER -> [exc |-> "ValueError", aware |-> FALSE, us |-> 0]

(***************************************************************************)
(* The float arithmetic of lines 612-613 and 626, in integers.  A Python   *)
(* float is an IEEE-754 double: n / 10^6 is the quotient rounded to 53     *)
(* bits.  Since 10^6 = 2^6 * 5^6 and scaling by a power of two is exact,   *)
(* the rounding error of n / 10^6 is that of n / 5^6: with m the 53-bit    *)
(* mantissa, m = round(n * 2^s / 5^6) where s = 52 - floor(log2(n / 5^6)), *)
(* and FloatError(n) = n * 2^s - m * 5^6 tells on which side of the exact  *)
(* quotient the float lies (positive: the float is smaller).               *)
(***************************************************************************)
FiveSix == 15625

RECURSIVE Pow2(_)
Pow2(k) == IF k = 0 THEN 1 ELSE 2 * Pow2(k - 1)

RECURSIVE Pow2Mod(_)
Pow2Mod(s) == IF s = 0 THEN 1 ELSE (2 * Pow2Mod(s - 1)) % FiveSix

\* floor(log2(n)), n >= 1
RECURSIVE Log2(_)
Log2(n) == IF n < 2 THEN 0 ELSE 1 + Log2(n \div 2)

\* The least t with n * 2^t >= 5^6, n >= 1
RECURSIVE ShiftUp(_)
ShiftUp(n) == IF n >= FiveSix THEN 0 ELSE 1 + ShiftUp(2 * n)

\* floor(log2(n / 5^6)), n >= 1
Log2Ratio(n) == IF n >= FiveSix THEN Log2(n \div FiveSix) ELSE -ShiftUp(n)

FloatError(n) ==
    LET rr == ((n % FiveSix) * Pow2Mod(52 - Log2Ratio(n))) % FiveSix
    IN IF 2 * rr > FiveSix THEN rr - FiveSix ELSE rr

\* int(timedelta(microseconds=us).total_seconds() * 1_000_000_000), us >= 1:
\* the product us/10^6 * 10^9 is rounded to a double again and int() cuts
\* the fraction off, so a product that rounds below us * 1000 loses 1 ns.
Truncated(us) ==
    LET r == FloatError(us)
        gap == Log2(us * 125) - Log2Ratio(us)
    IN IF r > 0 /\ 125 * r > Pow2(gap - 1) THEN us * 1000 - 1 ELSE us * 1000

\* Lines 612-613 for end_dt - start_dt = us microseconds.
DurationNs(us) ==
    IF us = 0 THEN 0 ELSE IF us < 0 THEN -Truncated(-us) ELSE Truncated(us)

\* round(ns / 1_000_000, 2) in hundredths of a millisecond, ns >= 0: the
\* double nearest to ns / 10^6 is rounded to 2 decimals, half to even.
RoundHalf(ns) ==
    LET q == ns \div 10000
        rem == ns % 10000
    IN IF rem < 5000 THEN q
       ELSE IF rem > 5000 THEN q + 1
       ELSE IF FloatError(ns) < 0 THEN q + 1
       ELSE IF FloatError(ns) > 0 THEN q
       ELSE q + (q % 2)

\* A conversion that cuts the third decimal off.
DurationMs_truncated(ns) == ns \div 10000

\* Line 626: duration_ms, kept in hundredths of a millisecond.
DurationMs(ns) == IF ns < 0 THEN -RoundHalf(-ns) ELSE RoundHalf(ns)

\* Lines 604-615: the duration of one event, or the exception that leaves
\* the try block (ValueError and AttributeError are caught there).
Derived(attrs) ==
    LET duration_ns == AttrGet(attrs, "duration", Num(0))
        start_ts == AttrGet(attrs, "start_timestamp", NoTs)
        end_ts == AttrGet(attrs, "end_timestamp", NoTs)
        start_dt == fromisoformat(start_ts)
        end_dt == fromisoformat(end_ts)
    IN IF duration_ns # Num(0)
       THEN [exc |-> "none", duration_ns |-> duration_ns]
       ELSE IF ~(TruthyTs(start_ts) /\ TruthyTs(end_ts))
       THEN [exc |-> "none", duration_ns |-> Num(0)]
       ELSE IF start_dt.exc # "none" \/ end_dt.exc # "none"
       THEN [exc |-> "none", duration_ns |-> Num(0)]
       ELSE IF start_dt.aware # end_dt.aware
       THEN [exc |-> "TypeError", duration_ns |-> Num(0)]
       ELSE [exc |-> "none", duration_ns |-> Num(DurationNs(end_dt.us - start_dt.us))]

NoSpan == [span_id |-> <<>>]

\* Lines 601-642 for one event: the canonical span, or the exception raised
\* (null attributes at line 604, the subtraction at line 612, the division
\* of a duration that is no number at line 626).
ExtractEvent(attrs) ==
    IF IsNull(attrs) THEN [exc |-> "AttributeError", span |-> NoSpan]
    ELSE LET d == Derived(attrs) IN
    IF d.exc # "none"
    THEN [exc |-> d.exc, span |-> NoSpan]
    ELSE IF d.duration_ns.type # "int"
    THEN [exc |-> "TypeError", span |-> NoSpan]
    ELSE [exc |-> "none",
          span |-> [trace_id       |-> AttrGet(attrs, "trace_id", <<>>),
                    span_id        |-> AttrGet(attrs, "span_id", <<>>),
                    parent_id      |-> AttrGet(attrs, "parent_id", None),
                    service        |-> AttrGet(attrs, "service", <<>>),
                    resource_name  |-> AttrGet(attrs, "resource_name", <<>>),
                    operation_name |-> AttrGet(attrs, "operation_name", <<>>),
                    duration_ns    |-> d.duration_ns,
                    duration_ms    |-> DurationMs(d.duration_ns.n),
                    status         |-> AttrGet(attrs, "status", <<>>),
                    error          |-> AttrGet(attrs, "error", Num(0)),
                    env            |-> AttrGet(attrs, "env", <<>>)]]

ExtractRaises(events) == \E i \in 1..Len(events) : ExtractEvent(events[i]).exc # "none"

\* The exception of the first event that raises.
ExtractException(events) ==
    ExtractEvent(events[CHOOSE i \in 1..Len(events) :
        /\ ExtractEvent(events[i]).exc # "none"
        /\ \A j \in 1..(i - 1) : ExtractEvent(events[j]).exc = "none"]).exc

\* An extractor that lists the spans newest first.
extract_trace_info_newestFirst(events) ==
    [i \in 1..Len(events) |-> ExtractEvent(events[Len(events) + 1 - i]).span]

extract_trace_info(events) ==
    [i \in 1..Len(events) |-> ExtractEvent(events[i]).span]

\* Lines 197-313: the branch that renders the format; every format the
\* chain does not name is rendered as a table.
Branch(format, include_children) ==
    CASE format \in {"summary", "debug", "json"} -> format
      [] format = "text" -> IF include_children THEN "hierarchy" ELSE "text"
      [] OTHER -> "table"

\* format_traces_as_table slices the service, the resource and the operation
\* and pads the status (formatters.py lines 664-673): a null one raises
\* TypeError.
TableRaises(trs) ==
    \E i \in 1..Len(trs) :
        \/ trs[i].service = None
        \/ trs[i].resource_name = None
        \/ trs[i].operation_name = None
        \/ trs[i].status = None

\* The summary slices the trace id and the resource (get_traces.py lines 217
\* and 243): a null one raises TypeError.
SummaryRaises(trs) ==
    \E i \in 1..Len(trs) : trs[i].trace_id = None \/ trs[i].resource_name = None

RenderRaises(format, include_children, trs) ==
    \/ Branch(format, include_children) = "table" /\ TableRaises(trs)
    \/ Branch(format, include_children) = "summary" /\ SummaryRaises(trs)

\* An answer that carries the cursor line in every format.
AppendsNextCursor_anyFormat(format, next_cursor) == TruthyCursor(next_cursor)

\* Lines 308 and 312: the text and table branches append the cursor line.
AppendsNextCursor(format, next_cursor) ==
    format \notin {"summary", "debug", "json"} /\ TruthyCursor(next_cursor)

\* An answer that reports more pages whatever the cursor is.
HasMore_always(next_cursor) == TRUE

\* Line 298: bool(next_cursor).
HasMore(next_cursor) == TruthyCursor(next_cursor)

NoJson == [traces |-> <<>>, pagination |-> [next_cursor |-> NoCursor, has_more |-> FALSE]]

\* The object json.dumps writes for one canonical span: its keys with their
\* values, a Python None written as null.
StringFields ==
    {"trace_id", "span_id", "parent_id", "service", "resource_name", "operation_name",
     "status", "env"}
JsonObject(span) ==
    [f \in DOMAIN span |->
        IF f \in StringFields /\ span[f] = None THEN <<"null">> ELSE span[f]]

\* Lines 294-301: the document of the json format.
JsonDocument(trs, next_cursor) ==
    [traces |-> [i \in 1..Len(trs) |-> JsonObject(trs[i])],
     pagination |-> [next_cursor |-> next_cursor, has_more |-> HasMore(next_cursor)]]

Rendered(req, trs, next_cursor) ==
    LET format == Arg(req, "format") IN
    [isError |-> FALSE, kind |-> "rendered", format |-> format,
     json |-> IF format = "json" THEN JsonDocument(trs, next_cursor) ELSE NoJson,
     body |-> Branch(format, Arg(req, "include_children")),
     found |-> Len(trs),
     header |-> format \notin {"json", "debug"},
     next_cursor_line |->
        IF AppendsNextCursor(format, next_cursor) THEN next_cursor ELSE NoCursor]

\* A handler that gives the guidance only for a free-text query.
GivesGuidance_queryOnly(req, trs) == Len(trs) = 0 /\ Truthy(Arg(req, "query"))

\* Line 175: zero spans with a query or filters.
GivesGuidance(req, trs) ==
    Len(trs) = 0 /\ (Truthy(Arg(req, "query")) \/ Arg(req, "filters") # <<>>)

\* Lines 176-194: the guidance message, with the filters and the query it
\* repeats.
Suggestion(req) ==
    [isError |-> FALSE, kind |-> "suggestion",
     filters |-> Arg(req, "filters"),
     query |-> IF Truthy(Arg(req, "query")) THEN Arg(req, "query") ELSE None,
     common_fields |-> TRUE]

\* Lines 160-333: extraction, the empty-result guidance, rendering.
Finish(req, resp, events) ==
    IF ExtractRaises(events)
    THEN [traces |-> <<>>, result |-> HandleException(req, ExtractException(events))]
    ELSE LET trs == extract_trace_info(events) IN
        IF GivesGuidance(req, trs)
        THEN [traces |-> trs, result |-> Suggestion(req)]
        ELSE IF RenderRaises(Arg(req, "format"), Arg(req, "include_children"), trs)
        THEN [traces |-> trs, result |-> HandleException(req, "TypeError")]
        ELSE [traces |-> trs, result |-> Rendered(req, trs, PageAfter(resp))]

(***************************************************************************)
(* The invocation as a state machine.                                      *)
(***************************************************************************)
Locals ==
    [pc |-> pc, response |-> response, trace_events |-> trace_events, idx |-> idx,
     all_spans |-> all_spans, trace_ids_seen |-> trace_ids_seen,
     page_cursor |-> page_cursor, page_num |-> page_num, traces |-> traces,
     result |-> result, raised |-> raised]

SetLocals(n) ==
    /\ pc' = n.pc
    /\ response' = n.response
    /\ trace_events' = n.trace_events
    /\ idx' = n.idx
    /\ all_spans' = n.all_spans
    /\ trace_ids_seen' = n.trace_ids_seen
    /\ page_cursor' = n.page_cursor
    /\ page_num' = n.page_num
    /\ traces' = n.traces
    /\ result' = n.result
    /\ raised' = n.raised

\* An exception raised in `stage` reaches the except clause (lines 335-352).
Fail(L, stage, e) ==
    [L EXCEPT !.pc = "done", !.raised = stage, !.result = HandleException(request, e)]

\* Lines 157-333 once the span list is known.
Complete(L, events) ==
    LET f == Finish(request, L.response, events)
        stage == IF f.result.kind # "error" THEN "none"
                 ELSE IF ExtractRaises(events) THEN "extraction" ELSE "rendering"
    IN [L EXCEPT !.pc = "done", !.trace_events = events, !.traces = f.traces,
                 !.result = f.result, !.raised = stage]

\* The expansion loop from position i, up to its next child fetch or its end.
Loop(L, i, spans) ==
    LET a == Advance(L.trace_events, i, spans, L.trace_ids_seen)
        L1 == [L EXCEPT !.idx = a.idx, !.all_spans = a.all_spans,
                        !.trace_ids_seen = a.seen]
    IN CASE a.status = "fetch" ->
                [L1 EXCEPT !.pc = "child", !.page_cursor = NoCursor, !.page_num = 0]
         [] a.status = "raise" -> Fail(L1, "expansion", "AttributeError")
         [] OTHER -> Complete(L1, a.all_spans)

NoHistory == [ups |-> <<>>, earlier |-> {}]

Init ==
    /\ pc = "idle"
    /\ request = EmptyDict
    /\ response = EmptyDict
    /\ trace_events = <<>>
    /\ idx = 0
    /\ all_spans = <<>>
    /\ trace_ids_seen = {}
    /\ page_cursor = NoCursor
    /\ page_num = 0
    /\ traces = <<>>
    /\ result = NoResult
    /\ fcall = NoCall
    /\ fetches = 0
    /\ posts = 0
    /\ seq_count = [t \in TraceIds |-> 0]
    /\ fetched = [t \in TraceIds |-> <<>>]
    /\ first_empty = {}
    /\ last_page = NoPage
    /\ prev_after = NoCursor
    /\ raised = "none"
    /\ history = NoHistory

\* handle_call is entered with a request (lines 71-82).
Start(Requests) ==
    /\ pc = "idle"
    /\ \E req \in Requests : request' = req
    /\ pc' = "initial"
    /\ UNCHANGED <<response, trace_events, idx, all_spans, trace_ids_seen, page_cursor,
                   page_num, traces, result, fcall, fetches, posts, seq_count, fetched,
                   first_empty, last_page, prev_after, raised, history>>

\* The initial fetch returns or raises (lines 84-106), and the handler runs on
\* to its first child fetch or to its return.  The call's outcome r and the
\* locals n it leaves are each computed once.
InitialStep(up) ==
    /\ pc = "initial"
    /\ \E r \in {fetch_traces(Arg(request, "time_range"), Arg(request, "filters"),
                               Arg(request, "query"), Arg(request, "limit"),
                               IF TruthyCursor(Arg(request, "cursor"))
                               THEN Arg(request, "cursor") ELSE NoCursor, up)} :
        \E data \in {AttrGet(r.value, "data", <<>>)} :
        \E L \in {[Locals EXCEPT !.response = r.value, !.trace_events = data]} :
        \E n \in {IF r.raised
                  THEN Fail(Locals, "initial_fetch", r.exc)
                  ELSE IF IsNull(r.value)
                  THEN [Locals EXCEPT !.pc = "done",
                           !.result = [isError |-> TRUE, kind |-> "no_response"]]
                  ELSE IF ExpandsChildren(request, data)
                  THEN Loop([L EXCEPT !.trace_ids_seen = NewSeen(@)], 1, <<>>)
                  ELSE Complete(L, data)} :
            /\ fcall' = Call(r)
            /\ fetches' = fetches + 1
            /\ posts' = posts + r.posts
            /\ SetLocals(n)
    /\ UNCHANGED <<request, seq_count, fetched, first_empty, last_page, prev_after>>

InitialFetch ==
    \E up \in InitialOutcomes : InitialStep(up) /\ UNCHANGED history

\* One child fetch returns or raises (lines 122-152), and the handler runs on
\* to its next child fetch or to its return.
ChildStep(up) ==
    /\ pc = "child"
    /\ page_num < MaxPages
    /\ \E event \in {trace_events[idx]} :
       \E num \in {page_num + 1} :
       \E r \in {fetch_traces(Arg(request, "time_range"), <<>>,
                              TraceQuery(event.trace_id), 1000, page_cursor, up)} :
       \E data \in {AttrGet(r.value, "data", <<>>)} :
       \E after \in {PageAfter(r.value)} :
       \E L \in {[Locals EXCEPT !.page_num = num]} :
       \E n \in {IF r.raised
                 THEN Fail(L, "expansion", r.exc)
                 ELSE IF HasData(r.value)
                 THEN (IF LoopContinues(after)
                       THEN [L EXCEPT !.all_spans = @ \o data, !.page_cursor = after]
                       ELSE Loop([L EXCEPT !.page_cursor = after], idx + 1,
                                 all_spans \o data))
                 ELSE Loop(L, idx + 1,
                           IF FallsBack(num) THEN Append(all_spans, event)
                           ELSE all_spans)} :
           /\ fcall' = Call(r)
           /\ fetches' = fetches + 1
           /\ posts' = posts + r.posts
           /\ last_page' = IF r.raised THEN NoPage
                           ELSE [ok |-> TRUE, data |-> data, after |-> after]
           /\ prev_after' = IF page_num = 0 THEN NoCursor ELSE last_page.after
           /\ seq_count' = IF page_num = 0
                           THEN [seq_count EXCEPT ![event.trace_id] = @ + 1]
                           ELSE seq_count
           /\ fetched' = IF ~r.raised /\ HasData(r.value)
                         THEN [fetched EXCEPT ![event.trace_id] = @ \o data]
                         ELSE fetched
           /\ first_empty' = IF ~r.raised /\ ~HasData(r.value) /\ num = 1
                             THEN first_empty \cup {event.trace_id}
                             ELSE first_empty
           /\ SetLocals(n)
    /\ UNCHANGED request

ChildFetch ==
    /\ pc = "child"
    /\ \E up \in ChildOutcomes(trace_events[idx].trace_id, page_num + 1) :
        ChildStep(up) /\ UNCHANGED history

\* The frame of handle_call is dropped: its locals are gone.  The set that
\* line 108 made is not touched here.
DropFrame ==
    /\ pc' = "idle"
    /\ request' = EmptyDict
    /\ response' = EmptyDict
    /\ trace_events' = <<>>
    /\ idx' = 0
    /\ all_spans' = <<>>
    /\ page_cursor' = NoCursor
    /\ page_num' = 0
    /\ traces' = <<>>
    /\ result' = NoResult
    /\ fcall' = NoCall
    /\ fetches' = 0
    /\ posts' = 0
    /\ seq_count' = [t \in TraceIds |-> 0]
    /\ fetched' = [t \in TraceIds |-> <<>>]
    /\ first_empty' = {}
    /\ last_page' = NoPage
    /\ prev_after' = NoCursor
    /\ raised' = "none"

\* handle_call has returned.
Return ==
    /\ pc = "done"
    /\ DropFrame
    /\ trace_ids_seen' = {}
    /\ UNCHANGED history

\* The requests of the expansion flow: no arguments at all, or the arguments
\* that steer the fetches.
Q == <<"q">>
Limits == {0, 50, 2000}
FlowRequests ==
    {EmptyDict}
        \cup [include_children : BOOLEAN]
        \cup [include_children : BOOLEAN, limit : {0}, cursor : {"c0"}, query : {Q}]
        \cup [limit : Limits]

Next ==
    \/ Start(FlowRequests)
    \/ InitialFetch
    \/ ChildFetch
    \/ Return

Spec == Init /\ [][Next]_vars

\* The event loop runs every step that is enabled.
FairSpec == Spec /\ WF_vars(Next)

(***************************************************************************)
(* fetch_traces called on its own, over a wider range of arguments.        *)
(***************************************************************************)
Chars == {"a", " ", ":"}
Strings == UNION {[1..k -> Chars] : k \in 0..MaxStrLen}
KeyDigits == <<"1", "2", "3", "4">>
KeyOf(i) == <<"k", KeyDigits[i]>>

\* A mapping of n entries, in insertion order, with the values v.
FilterMap(n, v) == [i \in 1..n |-> [key |-> KeyOf(i), value |-> v[i]]]

FetchLimits == {-1, 0, 1, 50, 1000, 1001}

FetchOk == [kind |-> "ok", body |-> [data |-> <<>>]]

\* One call of fetch_traces.
Fetch(time_range, filters, query, limit, cursor, up) ==
    /\ LET r == fetch_traces(time_range, filters, query, limit, cursor, up)
       IN /\ fcall' = Call(r)
          /\ posts' = r.posts
    /\ fetches' = 1
    /\ UNCHANGED <<pc, request, response, trace_events, idx, all_spans, trace_ids_seen,
                   page_cursor, page_num, traces, result, seq_count, fetched,
                   first_empty, last_page, prev_after, raised, history>>

\* Calls over every filter mapping, with and without a free-text query.
FetchQuery ==
    /\ pc = "idle"
    /\ fetches = 0
    /\ \E n \in 0..MaxFilters : \E v \in [1..n -> Strings] : \E query \in {None, Q} :
        Fetch("1h", FilterMap(n, v), query, 50, NoCursor, FetchOk)

\* Calls over every limit, cursor and upstream outcome.
FetchPage ==
    /\ pc = "idle"
    /\ fetches = 0
    /\ \E time_range \in {"1h", "7d"}, query \in {None, <<>>}, limit \in FetchLimits,
          cursor \in {NoCursor, "", "c0"}, up \in HTTPFailures \cup {FetchOk} :
        Fetch(time_range, <<>>, query, limit, cursor, up)

\* The caller drops the outcome.
FetchReturn ==
    /\ pc = "idle"
    /\ fetches = 1
    /\ fcall' = NoCall
    /\ fetches' = 0
    /\ posts' = 0
    /\ UNCHANGED <<pc, request, response, trace_events, idx, all_spans, trace_ids_seen,
                   page_cursor, page_num, traces, result, seq_count, fetched,
                   first_empty, last_page, prev_after, raised, history>>

NextFetch ==
    \/ FetchQuery
    \/ FetchPage
    \/ FetchReturn

SpecFetch == Init /\ [][NextFetch]_vars

(***************************************************************************)
(* handle_call with the json format.                                       *)
(***************************************************************************)
FormatRequests ==
    [format : {"json"}]
        \cup [format : {"json"}, query : {Q}]
        \cup [format : {"json"}, filters : {FilterMap(1, <<A>>)}]
        \cup [format : {"json"}, include_children : {TRUE}]

NextFormat ==
    \/ Start(FormatRequests)
    \/ InitialFetch
    \/ ChildFetch
    \/ Return

SpecFormat == Init /\ [][NextFormat]_vars

(***************************************************************************)
(* handle_call in every format: the five of the tool's schema and one the  *)
(* schema does not list.                                                   *)
(***************************************************************************)
Formats == {"table", "text", "summary", "json", "debug", "csv"}

AnswerRequests ==
    [format : Formats]
        \cup [format : {"table", "text", "summary"}, include_children : {TRUE}]
        \cup [format : {"table"}, query : {None, <<>>, Q},
              filters : {<<>>, FilterMap(1, <<A>>)}]

NextAnswer ==
    \/ Start(AnswerRequests)
    \/ InitialFetch
    \/ ChildFetch
    \/ Return

SpecAnswer == Init /\ [][NextAnswer]_vars

(***************************************************************************)
(* A session: invocations of handle_call one after the other, some of them *)
(* failing, some cancelled at an await (asyncio.CancelledError is not an   *)
(* Exception: it passes the except clause and no result is returned).      *)
(***************************************************************************)
SessionRequests ==
    [include_children : BOOLEAN] \cup [include_children : BOOLEAN, query : {Q}]

SessionPages ==
    UNION {[1..n -> {[span_id |-> A, trace_id |-> T1], [span_id |-> B, trace_id |-> T2]}] :
            n \in 0..MaxInitial}

SessionInitialOutcomes ==
    {[kind |-> "ConnectError", body |-> Null]}
        \cup {[kind |-> "ok", body |-> Body(d, EmptyDict)] : d \in SessionPages}

SessionChildOutcomes(tid, p) ==
    {[kind |-> "ConnectError", body |-> Null]}
        \cup {[kind |-> "ok", body |-> Body(ChildPage(tid, p, n), m)] :
                n \in {0, 2},
                m \in {EmptyDict} \cup (IF p < MaxPages THEN {MoreMeta(p)} ELSE {})}

\* The initial fetch of the invocation is answered.
SessionInitialFetch ==
    \E up \in SessionInitialOutcomes :
        /\ InitialStep(up)
        /\ history' = [history EXCEPT !.ups = Append(@, up)]

\* A child fetch of the invocation is answered.
SessionChildFetch ==
    /\ pc = "child"
    /\ \E up \in SessionChildOutcomes(trace_events[idx].trace_id, page_num + 1) :
        /\ ChildStep(up)
        /\ history' = [history EXCEPT !.ups = Append(@, up)]

\* handle_call has returned its result.
SessionReturn ==
    /\ pc = "done"
    /\ DropFrame
    /\ UNCHANGED trace_ids_seen
    /\ history' = [ups |-> <<>>,
                   earlier |-> IF result.isError THEN history.earlier \cup {"failed"}
                               ELSE history.earlier]

\* The invocation is cancelled while it awaits a fetch.
Abandon ==
    /\ pc \in {"initial", "child"}
    /\ DropFrame
    /\ UNCHANGED trace_ids_seen
    /\ history' = [ups |-> <<>>, earlier |-> history.earlier \cup {"abandoned"}]

NextSession ==
    \/ Start(SessionRequests)
    \/ SessionInitialFetch
    \/ SessionChildFetch
    \/ SessionReturn
    \/ Abandon

SpecSession == Init /\ [][NextSession]_vars

\* The locals of a new frame of handle_call.
NewFrame ==
    [pc |-> "initial", response |-> EmptyDict, trace_events |-> <<>>, idx |-> 0,
     all_spans |-> <<>>, trace_ids_seen |-> {}, page_cursor |-> NoCursor, page_num |-> 0,
     traces |-> <<>>, result |-> NoResult, raised |-> "none"]

\* Lines 84-106 on the locals L, for the outcome `up` of the initial fetch.
AfterInitial(L, up) ==
    LET r == fetch_traces(Arg(request, "time_range"), Arg(request, "filters"),
                          Arg(request, "query"), Arg(request, "limit"),
                          IF TruthyCursor(Arg(request, "cursor"))
                          THEN Arg(request, "cursor") ELSE NoCursor, up)
        data == AttrGet(r.value, "data", <<>>)
        L1 == [L EXCEPT !.response = r.value, !.trace_events = data]
    IN IF r.raised THEN Fail(L, "initial_fetch", r.exc)
       ELSE IF IsNull(r.value)
       THEN [L EXCEPT !.pc = "done", !.result = [isError |-> TRUE, kind |-> "no_response"]]
       ELSE IF ExpandsChildren(request, data)
       THEN Loop([L1 EXCEPT !.trace_ids_seen = {}], 1, <<>>)
       ELSE Complete(L1, data)

\* Lines 122-152 on the locals L, for the outcome `up` of a child fetch.
AfterChild(L, up) ==
    LET event == L.trace_events[L.idx]
        r == fetch_traces(Arg(request, "time_range"), <<>>, TraceQuery(event.trace_id),
                          1000, L.page_cursor, up)
        data == AttrGet(r.value, "data", <<>>)
        after == PageAfter(r.value)
        L1 == [L EXCEPT !.page_num = @ + 1]
    IN IF r.raised THEN Fail(L1, "expansion", r.exc)
       ELSE IF HasData(r.value)
       THEN (IF TruthyCursor(after)
             THEN [L1 EXCEPT !.all_spans = @ \o data, !.page_cursor = after]
             ELSE Loop([L1 EXCEPT !.page_cursor = after], L.idx + 1, L.all_spans \o data))
       ELSE Loop(L1, L.idx + 1,
                 IF L1.page_num = 1 THEN Append(L.all_spans, event) ELSE L.all_spans)

\* handle_call run in a new frame on the outcomes `ups`, one per await.
RECURSIVE handle_call(_, _)
handle_call(L, ups) ==
    IF ups = <<>> THEN L
    ELSE handle_call(CASE L.pc = "initial" -> AfterInitial(L, Head(ups))
                       [] L.pc = "child" -> AfterChild(L, Head(ups))
                       [] OTHER -> L,
                     Tail(ups))

(***************************************************************************)
(* server.handle_call_tool (server.py lines 101-125): the dispatch of a    *)
(* tool call to its handler.                                               *)
(***************************************************************************)
\* The keys of the tool registry (lines 31-92).
TOOLS ==
    {"list_ci_pipelines", "get_pipeline_fingerprints", "get_logs", "get_logs_field_values",
     "get_teams", "get_metrics", "get_metric_fields", "get_metric_field_values",
     "list_metrics", "list_service_definitions", "get_service_definition",
     "list_monitors", "list_slos", "get_traces", "aggregate_traces"}

TextContent(prefix, text) == [type |-> "text", text |-> <<prefix, text>>]

\* What awaiting a handler may do: return a CallToolResult, return an object
\* without a content attribute, raise an Exception, or be cancelled
\* (asyncio.CancelledError is a BaseException).
HandlerContents ==
    {<<>>, <<TextContent("", "one")>>, <<TextContent("", "one"), TextContent("", "two")>>}
HandlerOutcomes ==
    [kind : {"result"}, content : HandlerContents, isError : BOOLEAN, msg : {""}]
        \cup [kind : {"no_content"}, content : {<<>>}, isError : {FALSE}, msg : {""}]
        \cup [kind : {"Exception", "CancelledError"}, content : {<<>>}, isError : {FALSE},
              msg : {"", "boom"}]

\* A dispatcher without the except clause.
handle_call_tool_noExcept(name, arguments, h) ==
    IF name \in TOOLS
    THEN LET calls == <<[handler |-> name, request |-> [name |-> name, arguments |-> arguments]]>>
         IN CASE h.kind = "result" -> [kind |-> "returned", content |-> h.content, calls |-> calls]
              [] h.kind = "no_content" ->
                    [kind |-> "returned",
                     content |-> <<TextContent("Unexpected response format", "")>>,
                     calls |-> calls]
              [] OTHER -> [kind |-> "raised", content |-> <<>>, calls |-> calls]
    ELSE [kind |-> "returned", content |-> <<TextContent("Unknown tool: ", name)>>,
          calls |-> <<>>]

\* handle_call_tool(name, arguments) when the handler does h: the list
\* returned or the exception that leaves it, and the handler calls made.
handle_call_tool(name, arguments, h) ==
    IF name \in TOOLS
    THEN LET calls == <<[handler |-> name, request |-> [name |-> name, arguments |-> arguments]]>>
         IN CASE h.kind = "result" -> [kind |-> "returned", content |-> h.content, calls |-> calls]
              [] h.kind = "no_content" ->
                    [kind |-> "returned",
                     content |-> <<TextContent("Unexpected response format", "")>>,
                     calls |-> calls]
              [] h.kind = "Exception" ->
                    [kind |-> "returned", content |-> <<TextContent("Error: ", h.msg)>>,
                     calls |-> calls]
              [] OTHER -> [kind |-> "raised", content |-> <<>>, calls |-> calls]
    ELSE [kind |-> "returned", content |-> <<TextContent("Unknown tool: ", name)>>,
          calls |-> <<>>]

ToolNames == TOOLS \cup {"nonexistent_tool", ""}
ToolArguments == {EmptyDict, [param |-> "value"]}

\* A tool call is dispatched and answered.  `fcall` keeps what the handler
\* did.
CallTool ==
    /\ pc = "idle"
    /\ \E name \in ToolNames, arguments \in ToolArguments, h \in HandlerOutcomes :
        /\ request' = [name |-> name, arguments |-> arguments]
        /\ fcall' = [up |-> h.kind, content |-> h.content, msg |-> h.msg]
        /\ result' = handle_call_tool(name, arguments, h)
    /\ pc' = "served"
    /\ UNCHANGED <<response, trace_events, idx, all_spans, trace_ids_seen, page_cursor,
                   page_num, traces, fetches, posts, seq_count, fetched, first_empty,
                   last_page, prev_after, raised, history>>

ServerReturn ==
    /\ pc = "served"
    /\ pc' = "idle"
    /\ request' = EmptyDict
    /\ fcall' = NoCall
    /\ result' = NoResult
    /\ UNCHANGED <<response, trace_events, idx, all_spans, trace_ids_seen, page_cursor,
                   page_num, traces, fetches, posts, seq_count, fetched, first_empty,
                   last_page, prev_after, raised, history>>

\* dashboard_update_title.handle_call (lines 38-86).  An argument that is
\* absent or null reads as None, here the string NoCursor.
\* A validation that lets the empty string through.
Missing_absentOnly(v) == v = NoCursor

\* Lines 45 and 51: `not dashboard_id`, `not new_title`.
Missing(v) == ~TruthyCursor(v)

\* What update_dashboard_title may do: return the updated dashboard, with or
\* without the fields the handler reads, return None, or raise.
UpdateOutcomes ==
    {[kind |-> "ok", body |-> EmptyDict], [kind |-> "ok", body |-> Null],
     [kind |-> "ok", body |-> [_old_title |-> "Old", title |-> "Changed", url |-> "/d/1"]],
     [kind |-> "HTTPStatusError", body |-> Null]}

\* handle_call of dashboard_update_title on the arguments args, when the
\* upstream update does `up`: the result and the update calls made.
dashboard_update_title(args, up) ==
    LET dashboard_id == AttrGet(args, "dashboard_id", NoCursor)
        new_title == AttrGet(args, "new_title", NoCursor)
        call == <<[dashboard_id |-> dashboard_id, new_title |-> new_title]>>
    IN IF Missing(dashboard_id)
       THEN [isError |-> TRUE, text |-> <<"Error: ", "dashboard_id is required">>,
             updates |-> <<>>]
       ELSE IF Missing(new_title)
       THEN [isError |-> TRUE, text |-> <<"Error: ", "new_title is required">>,
             updates |-> <<>>]
       ELSE IF up.kind # "ok"
       THEN [isError |-> TRUE, text |-> <<"Error: ", up.kind>>, updates |-> call]
       ELSE IF IsNull(up.body)
       THEN [isError |-> TRUE, text |-> <<"Error: ", "AttributeError">>, updates |-> call]
       ELSE [isError |-> FALSE,
             text |-> <<"Dashboard Title Updated Successfully", "">>,
             shown |-> [dashboard_id |-> dashboard_id,
                        old_title |-> AttrGet(up.body, "_old_title", "unknown"),
                        new_title |-> AttrGet(up.body, "title", new_title),
                        url |-> IF "url" \in DOMAIN up.body THEN <<up.body.url>>
                                ELSE <<"/dashboard/", dashboard_id>>],
             updates |-> call]

TitleArguments ==
    {EmptyDict}
        \cup [dashboard_id : {NoCursor, "", "abc-123-xyz"}]
        \cup [new_title : {NoCursor, "", "New Title"}]
        \cup [dashboard_id : {NoCursor, "", "abc-123-xyz", " "},
              new_title : {NoCursor, "", "New Title", "0"}]

\* The dashboard tool is called and answers.
UpdateTitle ==
    /\ pc = "idle"
    /\ \E args \in TitleArguments, up \in UpdateOutcomes :
        \E r \in {dashboard_update_title(args, up)} :
            /\ request' = args
            /\ fcall' = IF r.updates # <<>> THEN [up |-> up.kind, body |-> up.body] ELSE NoCall
            /\ result' = r
    /\ pc' = "updated"
    /\ UNCHANGED <<response, trace_events, idx, all_spans, trace_ids_seen, page_cursor,
                   page_num, traces, fetches, posts, seq_count, fetched, first_empty,
                   last_page, prev_after, raised, history>>

UpdateReturn ==
    /\ pc = "updated"
    /\ pc' = "idle"
    /\ request' = EmptyDict
    /\ fcall' = NoCall
    /\ result' = NoResult
    /\ UNCHANGED <<response, trace_events, idx, all_spans, trace_ids_seen, page_cursor,
                   page_num, traces, fetches, posts, seq_count, fetched, first_empty,
                   last_page, prev_after, raised, history>>

NextServer ==
    \/ CallTool
    \/ ServerReturn
    \/ UpdateTitle
    \/ UpdateReturn

SpecServer == Init /\ [][NextServer]_vars

(***************************************************************************)
(* extract_trace_info on its own: the raw events it is given.              *)
(***************************************************************************)
MaxEvents == 3       \* raw events in one list (extract_trace_info inputs)

Durations == {Num(0), Num(2000000), Num(2006000), Num(15000), Num(-5), JNull, JText}
Starts == {Ts("Z", 0), Ts("naive", 0), Ts("garbage", 0), Ts("number", 0), NoTs}
Ends == {Ts("Z", 50000), Ts("Z", 65), Ts("Z", -1000), Ts("naive", 50000),
         Ts("garbage", 0), Ts("null", 0)}

\* One event in every shape the derivation of the duration tells apart, and
\* in the shapes of its other fields.
RawEvents ==
    [span_id : {A}]
        \cup [span_id : {A}, duration : Durations]
        \cup [span_id : {A}, start_timestamp : Starts]
        \cup [span_id : {A}, start_timestamp : Starts, end_timestamp : Ends]
        \cup [span_id : {A}, duration : {Num(0), Num(7), JNull},
              start_timestamp : {Ts("Z", 0)}, end_timestamp : {Ts("Z", 50000)}]
        \cup [span_id : {A}, service : {<<"w">>, None}, error : {Num(1), JNull}]
        \cup [span_id : {A}, parent_id : {None, B}, status : {<<"o", "k">>, None}]
        \cup {Null}

\* The events of the longer lists.
ListEvents ==
    [span_id : {A, B}]
        \cup [span_id : {A, B}, duration : {Num(2000000)}]
        \cup [span_id : {A, B}, start_timestamp : {Ts("Z", 0)},
              end_timestamp : {Ts("Z", 50000), Ts("naive", 50000)}]

RawLists ==
    {<<>>} \cup {<<e>> : e \in RawEvents}
        \cup UNION {[1..n -> ListEvents] : n \in 2..MaxEvents}

\* extract_trace_info(events) returns the canonical spans or raises.
Extract ==
    /\ pc = "idle"
    /\ \E events \in RawLists :
        /\ trace_events' = events
        /\ IF ExtractRaises(events)
           THEN /\ traces' = <<>>
                /\ raised' = "extraction"
                /\ result' = [kind |-> "raised", msg |-> ExtractException(events)]
           ELSE /\ traces' = extract_trace_info(events)
                /\ raised' = "none"
                /\ result' = [kind |-> "returned", msg |-> ""]
    /\ pc' = "extracted"
    /\ UNCHANGED <<request, response, idx, all_spans, trace_ids_seen, page_cursor,
                   page_num, fcall, fetches, posts, seq_count, fetched, first_empty,
                   last_page, prev_after, history>>

ExtractReturn ==
    /\ pc = "extracted"
    /\ pc' = "idle"
    /\ trace_events' = <<>>
    /\ traces' = <<>>
    /\ raised' = "none"
    /\ result' = NoResult
    /\ UNCHANGED <<request, response, idx, all_spans, trace_ids_seen, page_cursor,
                   page_num, fcall, fetches, posts, seq_count, fetched, first_empty,
                   last_page, prev_after, history>>

NextExtract ==
    \/ Extract
    \/ ExtractReturn

SpecExtract == Init /\ [][NextExtract]_vars

(***************************************************************************)
(* Properties.                                                             *)
(***************************************************************************)
InitialData == AttrGet(response, "data", <<>>)
\* The expansion loop has been entered; events 1..idx-1 are behind it.
Expanding == pc \in {"child", "done"} /\ idx >= 1
\* The spans of the trace t that the child fetches returned.
IsChildOf(span, t) == span.span_id[1] = t /\ span.span_id[2] >= 1
ChildSpansIn(spans, t) == SelectSeq(spans, LAMBDA x : IsChildOf(x, t))
Occurrences(spans, x) == Cardinality({j \in 1..Len(spans) : spans[j] = x})
WellFormedPage == \A i \in 1..Len(InitialData) : ~IsNull(InitialData[i])

C2_ExactlyOneSequencePerTrace ==
    (pc = "done" /\ Arg(request, "include_children") /\ WellFormedPage) =>
        \A i \in 1..Len(InitialData) :
            Truthy(AttrGet(InitialData[i], "trace_id", None)) =>
                seq_count[InitialData[i].trace_id] = 1

\* C3 as stated: within one trace, a fetch after the first carries the cursor
\* of the previous page, fetching goes on until a page comes without cursor,
\* and the spans of every fetched page are accumulated in page order.
C3_ContinuesUntilNoCursor ==
    Expanding =>
        /\ (fetches >= 2 /\ page_num >= 2) => fcall.payload.cursor = prev_after
        /\ (last_page.ok /\ TruthyCursor(last_page.after)) => (pc = "child" /\ page_num >= 1)
        /\ \A t \in TraceIds : ChildSpansIn(all_spans, t) = fetched[t]

\* C3 amended: a fetch after the first carries exactly the cursor of the
\* previous page (query trace_id:<id>, page size 1000); fetching goes on
\* exactly while the page holds spans and a cursor; the spans of every
\* fetched page are accumulated in page order.
C3_CursorChain ==
    Expanding =>
        /\ fetches >= 2 =>
            /\ fcall.payload.limit = 1000
            /\ \E t \in trace_ids_seen : fcall.payload.query = TraceQuery(t)
            /\ fcall.payload.cursor = prev_after
            /\ page_num = 1 => prev_after = NoCursor
        /\ (pc = "child" /\ page_num >= 1) =>
            /\ fcall.payload.query = TraceQuery(InitialData[idx].trace_id)
            /\ page_cursor = last_page.after
        /\ (pc = "child" /\ page_num >= 1) <=>
                (last_page.ok /\ last_page.data # <<>> /\ TruthyCursor(last_page.after))
        /\ \A t \in TraceIds : ChildSpansIn(all_spans, t) = fetched[t]
        /\ (pc = "done" /\ raised = "none") =>
            /\ trace_events = all_spans
            /\ \A t \in TraceIds :
                Cardinality({j \in 1..Len(traces) : traces[j].span_id[1] = t
                                                      /\ traces[j].span_id[2] >= 1})
                    = Len(fetched[t])

\* A page of 3 spans, then a page of 1 span without cursor: 4 spans.
C3_Witness ==
    /\ pc = "done"
    /\ raised = "none"
    /\ Len(InitialData) = 1
    /\ fetches = 3
    /\ fetched[T1] = ChildPage(T1, 1, 3) \o ChildPage(T1, 2, 1)
    /\ Len(traces) = 4

\* C4: with include_children, an initial span whose trace_id is empty or
\* missing, or whose trace's first child fetch returned no data, is in the
\* expanded span list unchanged, once.
C4_NoInitialSpanDropped ==
    Expanding =>
        /\ \A i \in 1..(idx - 1) :
            (\/ ~Truthy(AttrGet(InitialData[i], "trace_id", None))
             \/ InitialData[i].trace_id \in first_empty)
                => Occurrences(all_spans, InitialData[i]) = 1
        /\ (pc = "done" /\ raised = "none") =>
            \A i \in 1..Len(InitialData) :
                (\/ ~Truthy(AttrGet(InitialData[i], "trace_id", None))
                 \/ InitialData[i].trace_id \in first_empty)
                    => /\ Occurrences(trace_events, InitialData[i]) = 1
                       /\ \E j \in 1..Len(traces) : traces[j].span_id = InitialData[i].span_id

C4_Witness ==
    /\ pc = "done"
    /\ raised = "none"
    /\ Arg(request, "include_children")
    /\ Len(InitialData) = 2
    /\ "trace_id" \notin DOMAIN InitialData[1]
    /\ AttrGet(InitialData[2], "trace_id", None) = T2
    /\ T2 \in first_empty
    /\ all_spans = InitialData

\* C5: with include_children, when the child fetch of one trace raises, the
\* handler falls back to the originally-fetched span, keeps the spans of the
\* other traces and returns a non-error result.
C5_FailedExpansionFallsBack ==
    (pc = "done" /\ fetches >= 2 /\ fcall.raised) =>
        /\ result.isError = FALSE
        /\ raised = "none"
        /\ Occurrences(trace_events, InitialData[idx]) >= 1

\* C6: when the upstream ends every trace's cursor chain, handle_call makes
\* finitely many fetches and returns; a trace's page loop ends only on a page
\* without cursor or without data, and on nothing else.
C6_ExpansionTerminates ==
    /\ (pc = "initial") ~> (pc = "done")
    /\ [](fetches <= 1 + Len(InitialData) * MaxPages)
    /\ []((Expanding /\ last_page.ok) =>
            (~(pc = "child" /\ page_num >= 1)
                <=> (last_page.data = <<>> \/ ~TruthyCursor(last_page.after))))

\* Two traces, each read to the last page the upstream serves.
C6_Witness ==
    /\ pc = "done"
    /\ raised = "none"
    /\ seq_count[T1] = 1
    /\ seq_count[T2] = 1
    /\ fetches = 1 + 2 * MaxPages

\* C7: without include_children (false or absent), or with an empty initial
\* page, handle_call makes exactly one fetch_traces call and extracts exactly
\* the spans of the initial page.
C7_NoExpansionWithoutFlag ==
    /\ pc = "child" => (Arg(request, "include_children") /\ InitialData # <<>>)
    /\ (pc = "done" /\ (~Arg(request, "include_children") \/ InitialData = <<>>)) =>
        /\ fetches = 1
        /\ \A t \in TraceIds : seq_count[t] = 0
        /\ (raised = "none" /\ result.kind # "no_response") =>
            /\ trace_events = InitialData
            /\ Len(traces) = Len(InitialData)
            /\ \A i \in 1..Len(traces) :
                /\ traces[i].span_id = InitialData[i].span_id
                /\ traces[i].trace_id = AttrGet(InitialData[i], "trace_id", <<>>)

C7_Witness ==
    /\ pc = "done"
    /\ "include_children" \notin DOMAIN request
    /\ Len(InitialData) = 2
    /\ AttrGet(InitialData[1], "trace_id", None) = T1
    /\ AttrGet(InitialData[2], "trace_id", None) = T2
    /\ fetches = 1
    /\ Len(traces) = 2

\* C8: a call of fetch_traces makes exactly one upstream POST; a failed call
\* (HTTP status, network, timeout, undecodable body) raises that failure to
\* the caller and never returns normally.
C8_OnePostAndReraise ==
    /\ posts = fetches
    /\ fcall.up # "none" =>
        /\ fcall.posts = 1
        /\ fcall.raised <=> fcall.up # "ok"
        /\ fcall.raised => fcall.exc = fcall.up
        /\ (pc = "done" /\ fcall.up # "ok") =>
            (result.kind = "error" /\ result.msg = fcall.up)

C8_Witness ==
    /\ pc = "done"
    /\ fetches = 3
    /\ posts = 3
    /\ fcall.up = "ReadTimeout"
    /\ fcall.raised

\* The query string as the description gives it: key:value terms, the value
\* in double quotes exactly when it holds a space or a colon, then the
\* free-text query, joined by " AND "; "*" when there is neither.
Quoted(value) == <<"\"">> \o value \o <<"\"">>
ExpectedTerm(f) ==
    f.key \o <<":">> \o
        (IF \E i \in 1..Len(f.value) : f.value[i] \in {" ", ":"}
         THEN Quoted(f.value) ELSE f.value)
RECURSIVE ExpectedQuery(_, _)
ExpectedQuery(filters, query) ==
    IF filters = <<>>
    THEN (IF query \in {None, <<>>} THEN <<"*">> ELSE query)
    ELSE IF Len(filters) = 1 /\ query \in {None, <<>>}
    THEN ExpectedTerm(filters[1])
    ELSE ExpectedTerm(filters[1]) \o AND \o ExpectedQuery(Tail(filters), query)

\* C9: fetch_traces sends the query string built from filters and query:
\* key:value terms (quoted on space or colon) in mapping order, then the
\* query, joined with " AND "; "*" when both are missing.
C9_QueryString ==
    fcall.up # "none" =>
        fcall.payload.query = ExpectedQuery(fcall.args.filters, fcall.args.query)

C9_Witness ==
    /\ fcall.up # "none"
    /\ Len(fcall.args.filters) = 2
    /\ fcall.args.filters[1].value = <<"a", ":">>
    /\ fcall.args.filters[2].value = <<"a", "a">>
    /\ fcall.args.query = Q
    /\ fcall.payload.query =
        <<"k", "1", ":", "\"", "a", ":", "\"">> \o AND \o <<"k", "2", ":", "a", "a">>
            \o AND \o Q

\* C10: whatever limit the caller passes to get_traces, the page limit of
\* every upstream search request lies in 1..1000.
C10_PageLimitInRange ==
    fcall.up # "none" => fcall.payload.limit \in 1..1000

(***************************************************************************)
(* format_traces_as_hierarchy (formatters.py lines 714-773) and the        *)
(* summary of handle_call (get_traces.py lines 197-247).  A span is named  *)
(* by its position in the list it came in.                                 *)
(***************************************************************************)
RECURSIVE Flatten(_)
Flatten(ss) == IF ss = <<>> THEN <<>> ELSE Head(ss) \o Flatten(Tail(ss))

Indices(trs) == [i \in 1..Len(trs) |-> i]

\* The keys of trace_map (line 727).
SpanIds(trs) == {trs[i].span_id : i \in 1..Len(trs)}

\* A builder that takes only the spans without parent_id for roots.
IsRoot_noParentOnly(trs, i) == ~Truthy(trs[i].parent_id)

\* Line 733.
IsRoot(trs, i) == ~Truthy(trs[i].parent_id) \/ trs[i].parent_id \notin SpanIds(trs)

\* Lines 731-734.
root_traces(trs) == SelectSeq(Indices(trs), LAMBDA i : IsRoot(trs, i))

\* A builder that lists the newest child first.
children_map_newestFirst(trs, parent_id) ==
    LET kids == SelectSeq(Indices(trs),
                          LAMBDA i : ~IsRoot(trs, i) /\ trs[i].parent_id = parent_id)
    IN [k \in 1..Len(kids) |-> kids[Len(kids) + 1 - k]]

\* Lines 735-738: children_map[parent_id], empty when the key is not there.
children_map(trs, parent_id) ==
    SelectSeq(Indices(trs), LAMBDA i : ~IsRoot(trs, i) /\ trs[i].parent_id = parent_id)

Line(kind, span, indent) == [kind |-> kind, span |-> span, indent |-> indent]

\* A traversal that stops below the children of the span.
format_trace_node_shallow(trs, i, indent) ==
    LET children == children_map(trs, trs[i].span_id) IN
    <<Line("span", i, indent)>>
        \o [k \in 1..Len(children) |-> Line("span", children[k], indent + 1)]

\* Lines 740-765.  A path longer than the list repeats a span_id, so the
\* recursion never ends: Python raises RecursionError.
RECURSIVE format_trace_node(_, _, _)
format_trace_node(trs, i, indent) ==
    IF indent > Len(trs) THEN <<Line("RecursionError", i, indent)>>
    ELSE LET children == children_map(trs, trs[i].span_id) IN
        <<Line("span", i, indent)>>
            \o (IF Truthy(trs[i].resource_name) /\ indent = 0
                THEN <<Line("resource", i, indent + 1)>> ELSE <<>>)
            \o Flatten([k \in 1..Len(children) |->
                    format_trace_node(trs, children[k], indent + 1)])

\* Lines 767-771.
all_lines(trs) ==
    LET roots == root_traces(trs) IN
    Flatten([k \in 1..Len(roots) |->
        format_trace_node(trs, roots[k], 0) \o <<Line("blank", 0, 0)>>])

\* format_traces_as_hierarchy(traces): the text as lines, with the roots and
\* the children map it was built from, or the exception raised.
format_traces_as_hierarchy(trs) ==
    IF trs = <<>>
    THEN [kind |-> "no_traces", renderer |-> "hierarchy", text |-> "No traces found",
          roots |-> <<>>, children |-> <<>>, lines |-> <<>>]
    ELSE LET lines == all_lines(trs) IN
         [kind |-> IF \E k \in 1..Len(lines) : lines[k].kind = "RecursionError"
                   THEN "RecursionError" ELSE "hierarchy",
          renderer |-> "hierarchy",
          roots |-> root_traces(trs),
          children |-> [id \in SpanIds(trs) |-> children_map(trs, id)],
          lines |-> lines]

\* format_traces_as_table(traces) (lines 656-676): the literal for an empty
\* list, else the header and one row per span, or the exception raised.
format_traces_as_table(trs) ==
    IF trs = <<>>
    THEN [kind |-> "no_traces", renderer |-> "table", text |-> "No traces found"]
    ELSE IF TableRaises(trs)
    THEN [kind |-> "TypeError", renderer |-> "table"]
    ELSE [kind |-> "table", renderer |-> "table", rows |-> Indices(trs)]

\* format_traces_as_text(traces) (lines 688-711): the literal for an empty
\* list, else one numbered block per span.
format_traces_as_text(trs) ==
    IF trs = <<>>
    THEN [kind |-> "no_traces", renderer |-> "text", text |-> "No traces found"]
    ELSE [kind |-> "text", renderer |-> "text", blocks |-> Indices(trs)]

Zero == <<"0">>

\* Lines 205-210: the trace ids in first-seen order.
RECURSIVE traces_by_id(_, _)
traces_by_id(trs, seen) ==
    IF trs = <<>> THEN <<>>
    ELSE IF Head(trs).trace_id \in seen THEN traces_by_id(Tail(trs), seen)
    ELSE <<Head(trs).trace_id>> \o traces_by_id(Tail(trs), seen \cup {Head(trs).trace_id})

\* Line 224: root_spans of the spans of one trace.
root_spans(trs, trace_id) ==
    SelectSeq(Indices(trs),
              LAMBDA i : /\ trs[i].trace_id = trace_id
                         /\ (~Truthy(trs[i].parent_id) \/ trs[i].parent_id = Zero))

\* The keys of a Counter or of a dict, in first-seen order.
RECURSIVE Distinct(_, _)
Distinct(keys, seen) ==
    IF keys = <<>> THEN <<>>
    ELSE IF Head(keys) \in seen THEN Distinct(Tail(keys), seen)
    ELSE <<Head(keys)>> \o Distinct(Tail(keys), seen \cup {Head(keys)})

\* An insertion that puts the entry before the entries of equal key.
RECURSIVE Insert_beforeTies(_, _)
Insert_beforeTies(sorted, p) ==
    IF sorted = <<>> THEN <<p>>
    ELSE IF Head(sorted).key > p.key
    THEN <<Head(sorted)>> \o Insert_beforeTies(Tail(sorted), p)
    ELSE <<p>> \o sorted

\* The entry p put into a list sorted by descending key, after the entries
\* of equal key.
RECURSIVE Insert(_, _)
Insert(sorted, p) ==
    IF sorted = <<>> THEN <<p>>
    ELSE IF Head(sorted).key >= p.key
    THEN <<Head(sorted)>> \o Insert(Tail(sorted), p)
    ELSE <<p>> \o sorted

\* sorted(entries, key=..., reverse=True): a stable sort, the entries of
\* equal key stay in the order they came in.
RECURSIVE SortedDesc(_)
SortedDesc(entries) ==
    IF entries = <<>> THEN <<>>
    ELSE Insert(SortedDesc(SubSeq(entries, 1, Len(entries) - 1)), entries[Len(entries)])

Take(seq, n) == SubSeq(seq, 1, Min(n, Len(seq)))

SlowestShown == 5
OperationsShown == 10

\* Lines 220 and 236: Counter(operation names of the spans).most_common(10),
\* the names with their counts.
most_common(trs, spans) ==
    LET names == Distinct([k \in 1..Len(spans) |-> trs[spans[k]].operation_name], {})
        counted == [k \in 1..Len(names) |->
                       [item |-> names[k],
                        key |-> Cardinality({j \in 1..Len(spans) :
                                    trs[spans[j]].operation_name = names[k]})]]
        top == Take(SortedDesc(counted), OperationsShown)
    IN [k \in 1..Len(top) |-> [op |-> top[k].item, count |-> top[k].key]]

\* Line 240: the five spans of the longest duration_ms.
slowest(trs, spans) ==
    LET top == Take(SortedDesc([k \in 1..Len(spans) |->
                        [item |-> spans[k], key |-> trs[spans[k]].duration_ms]]),
                    SlowestShown)
    IN [k \in 1..Len(top) |-> top[k].item]

\* Lines 197-247: per trace its spans and its root spans.
Summary(trs) ==
    LET ids == traces_by_id(trs, {}) IN
    IF SummaryRaises(trs) THEN [kind |-> "TypeError", renderer |-> "summary"]
    ELSE IF trs = <<>>
    THEN [kind |-> "summary", renderer |-> "summary",
          text |-> "Total spans: 0\nUnique traces: 0\n",
          total |-> 0, unique |-> 0, groups |-> <<>>]
    ELSE
    [kind |-> "summary", renderer |-> "summary",
     total |-> Len(trs),
     unique |-> Len(ids),
     groups |-> [g \in 1..Len(ids) |->
        [trace_id |-> ids[g],
         spans |-> SelectSeq(Indices(trs), LAMBDA i : trs[i].trace_id = ids[g]),
         root_spans |-> root_spans(trs, ids[g])]]]

\* The summary with its lists: per trace the operation counts and the
\* slowest spans.
SummaryLists(trs) ==
    LET sm == Summary(trs) IN
    IF sm.kind # "summary" THEN sm
    ELSE [sm EXCEPT !.groups =
            [g \in 1..Len(sm.groups) |->
                [trace_id |-> sm.groups[g].trace_id,
                 spans |-> sm.groups[g].spans,
                 root_spans |-> sm.groups[g].root_spans,
                 operations |-> most_common(trs, sm.groups[g].spans),
                 slowest |-> slowest(trs, sm.groups[g].spans)]]]

MaxSpans == 3        \* canonical spans in one list (renderer inputs)

\* The raw events the span lists are extracted from.
TreeEvents ==
    [span_id : {A, B, C}, parent_id : {None, A, B}, trace_id : {T1}]
        \cup [span_id : {B, C}, parent_id : {<<>>, Zero}, trace_id : {T1, T2}]

\* The canonical spans extracted from them.
TreeSpans == {ExtractEvent(e).span : e \in TreeEvents}

\* format_traces_as_hierarchy(traces) is called.
Hierarchy ==
    /\ pc = "idle"
    /\ \E n \in 0..MaxSpans : \E trs \in [1..n -> TreeSpans] :
        /\ traces' = trs
        /\ result' = format_traces_as_hierarchy(trs)
    /\ pc' = "rendered"
    /\ UNCHANGED <<request, response, trace_events, idx, all_spans, trace_ids_seen,
                   page_cursor, page_num, fcall, fetches, posts, seq_count, fetched,
                   first_empty, last_page, prev_after, raised, history>>

\* The summary is made of a span list.
Summarise ==
    /\ pc = "idle"
    /\ \E n \in 0..MaxSpans : \E trs \in [1..n -> TreeSpans] :
        /\ traces' = trs
        /\ result' = Summary(trs)
    /\ pc' = "rendered"
    /\ UNCHANGED <<request, response, trace_events, idx, all_spans, trace_ids_seen,
                   page_cursor, page_num, fcall, fetches, posts, seq_count, fetched,
                   first_empty, last_page, prev_after, raised, history>>

\* format_traces_as_table(traces) or format_traces_as_text(traces) is called.
Tabulate ==
    /\ pc = "idle"
    /\ \E n \in 0..MaxSpans : \E trs \in [1..n -> TreeSpans] :
        /\ traces' = trs
        /\ \/ result' = format_traces_as_table(trs)
           \/ result' = format_traces_as_text(trs)
    /\ pc' = "rendered"
    /\ UNCHANGED <<request, response, trace_events, idx, all_spans, trace_ids_seen,
                   page_cursor, page_num, fcall, fetches, posts, seq_count, fetched,
                   first_empty, last_page, prev_after, raised, history>>

RenderReturn ==
    /\ pc = "rendered"
    /\ pc' = "idle"
    /\ traces' = <<>>
    /\ result' = NoResult
    /\ UNCHANGED <<request, response, trace_events, idx, all_spans, trace_ids_seen,
                   page_cursor, page_num, fcall, fetches, posts, seq_count, fetched,
                   first_empty, last_page, prev_after, raised, history>>

\* The summary of longer span lists: the span at position i has one of
\* `ops` operation names and one of `durs` durations, and every `third`
\* span is of a second trace.
MaxSummary == 12     \* canonical spans in one list (summary inputs)

OpLetters == <<"a", "b", "c", "d", "e", "f", "g", "h", "i", "j", "k", "l", "m", "n">>
OpName(k) == <<"o", "p", OpLetters[k]>>

SummarySpan ==
    [o \in 1..(MaxSummary + 1), d \in 0..2, t \in TraceIds |->
        ExtractEvent([trace_id |-> t, span_id |-> <<"s">>, operation_name |-> OpName(o),
                      duration |-> Num(1000000 + 5000 * d)]).span]

SummaryList(n, ops, step, durs, third) ==
    [i \in 1..n |->
        SummarySpan[((i * step) % ops) + 1, (i * i) % durs,
                    IF third /\ i % 3 = 0 THEN T2 ELSE T1]]

SummariseMany ==
    /\ pc = "idle"
    /\ \E n \in 0..MaxSummary, ops \in 1..(MaxSummary + 1), step \in {1, 5},
          durs \in 1..3, third \in BOOLEAN :
        \E trs \in {SummaryList(n, ops, step, durs, third)} :
            /\ traces' = trs
            /\ result' = SummaryLists(trs)
    /\ pc' = "rendered"
    /\ UNCHANGED <<request, response, trace_events, idx, all_spans, trace_ids_seen,
                   page_cursor, page_num, fcall, fetches, posts, seq_count, fetched,
                   first_empty, last_page, prev_after, raised, history>>

NextSummary ==
    \/ SummariseMany
    \/ RenderReturn

SpecSummary == Init /\ [][NextSummary]_vars

NextTree ==
    \/ Hierarchy
    \/ Summarise
    \/ Tabulate
    \/ RenderReturn

SpecTree == Init /\ [][NextTree]_vars

\* extract_trace_info has returned a span list.
Extracted == pc = "extracted" /\ result.kind = "returned"

\* C11: extract_trace_info returns one canonical span per raw event, in the
\* order of the input: the output is as long as the input and its i-th span
\* is what the i-th event alone gives.
C11_OneSpanPerEvent ==
    Extracted =>
        /\ Len(traces) = Len(trace_events)
        /\ \A i \in 1..Len(traces) :
            /\ traces[i].span_id = AttrGet(trace_events[i], "span_id", <<>>)
            /\ traces[i] = ExtractEvent(trace_events[i]).span
            /\ \A j \in 1..Len(trace_events) \ {i}, e \in ListEvents :
                ~ExtractRaises([trace_events EXCEPT ![j] = e])
                    => extract_trace_info([trace_events EXCEPT ![j] = e])[i] = traces[i]

C11_Witness ==
    /\ Extracted
    /\ Len(traces) = 3
    /\ traces[1].span_id = B
    /\ traces[2].span_id = A
    /\ traces[3].span_id = B
    /\ traces[1].duration_ns = Num(2000000)
    /\ traces[2].duration_ns = Num(0)

\* The raw timestamps of an event, and whether both are ISO-8601 text.
StartOf(attrs) == AttrGet(attrs, "start_timestamp", NoTs)
EndOf(attrs) == AttrGet(attrs, "end_timestamp", NoTs)
BothParse(attrs) == StartOf(attrs).kind \in {"Z", "naive"} /\ EndOf(attrs).kind \in {"Z", "naive"}
\* The event has no explicit duration, or the explicit duration 0.
NoDuration(attrs) == AttrGet(attrs, "duration", Num(0)) = Num(0)

\* C12: duration_ns is the explicit duration when that is a nonzero number;
\* otherwise, when both timestamps parse, it is (end - start) in
\* nanoseconds; otherwise it is 0.
C12_DurationPriority ==
    Extracted =>
        \A i \in 1..Len(traces) :
            traces[i].duration_ns =
                IF ~NoDuration(trace_events[i])
                THEN trace_events[i].duration
                ELSE IF BothParse(trace_events[i])
                THEN Num((EndOf(trace_events[i]).us - StartOf(trace_events[i]).us) * 1000)
                ELSE Num(0)

\* C13: for events without explicit duration, a start/end pair that gives no
\* duration (a non-string, unparseable text, an aware and a naive timestamp)
\* yields duration_ns = 0, and extract_trace_info does not raise.
C13_MalformedPairYieldsZero ==
    (/\ pc = "extracted"
     /\ \A i \in 1..Len(trace_events) :
            ~IsNull(trace_events[i]) /\ NoDuration(trace_events[i])) =>
        /\ result.kind = "returned"
        /\ \A i \in 1..Len(traces) :
            (\/ ~BothParse(trace_events[i])
             \/ StartOf(trace_events[i]).kind # EndOf(trace_events[i]).kind)
                => traces[i].duration_ns = Num(0)

\* C14: the duration_ns of every canonical span is an integer >= 0.
C14_DurationNonNegative ==
    Extracted =>
        \A i \in 1..Len(traces) :
            traces[i].duration_ns.type = "int" /\ traces[i].duration_ns.n >= 0

\* C15: the duration_ms of every canonical span is its duration_ns divided
\* by 1_000_000 and rounded to 2 decimals, however duration_ns was derived.
C15_DurationMsRounded ==
    Extracted =>
        \A i \in 1..Len(traces) :
            /\ traces[i].duration_ms = DurationMs(traces[i].duration_ns.n)
            /\ traces[i].duration_ms * 10000 - traces[i].duration_ns.n \in -5000..5000

\* One list with an explicit duration (2 ms), a duration from the timestamps
\* (50 ms) and the default 0.
C15_Witness ==
    /\ Extracted
    /\ Len(traces) = 3
    /\ AttrGet(trace_events[1], "duration", Num(0)) = Num(2000000)
    /\ traces[1].duration_ms = 200
    /\ "duration" \notin DOMAIN trace_events[2]
    /\ traces[2].duration_ns = Num(50000000)
    /\ traces[2].duration_ms = 5000
    /\ DOMAIN trace_events[3] = {"span_id"}
    /\ traces[3].duration_ns = Num(0)
    /\ traces[3].duration_ms = 0

\* C16: in every canonical span the string fields are strings and the
\* numeric fields are numbers, never null.
C16_NoNullFields ==
    Extracted =>
        \A i \in 1..Len(traces) :
            /\ \A f \in {"trace_id", "span_id", "service", "resource_name",
                         "operation_name", "status", "env"} : traces[i][f] # None
            /\ traces[i].duration_ns.type = "int"
            /\ traces[i].error.type = "int"

\* The hierarchy builder has built its roots and its children map.
Built == pc = "rendered" /\ result.kind \in {"hierarchy", "RecursionError"}
InSeq(x, seq) == \E k \in 1..Len(seq) : seq[k] = x
Increasing(seq) == \A k \in 1..(Len(seq) - 1) : seq[k] < seq[k + 1]

\* C17: a span is a root of the hierarchy if and only if its parent_id is
\* empty or absent, or equal to no span_id of the list; a parent missing
\* from the list never makes the build raise.
C17_RootIffNoParentInList ==
    Built =>
        /\ \A i \in 1..Len(traces) :
            InSeq(i, result.roots) <=>
                (\/ traces[i].parent_id \in {None, <<>>}
                 \/ \A j \in 1..Len(traces) : traces[j].span_id # traces[i].parent_id)
        /\ \A i \in 1..Len(traces) :
            ~InSeq(i, result.roots) =>
                InSeq(i, result.children[traces[i].parent_id])
        /\ result.kind = "RecursionError" =>
            \E i, j \in 1..Len(traces) : i # j /\ traces[i].span_id = traces[j].span_id

\* A filtered trace: b (parent a) and c (parent b), without a.
C17_Witness ==
    /\ Built
    /\ result.kind = "hierarchy"
    /\ Len(traces) = 2
    /\ traces[1].span_id = B /\ traces[1].parent_id = A
    /\ traces[2].span_id = C /\ traces[2].parent_id = B
    /\ result.roots = <<1>>
    /\ result.children[B] = <<2>>

\* The span lines of the text, and for the p-th of them the first later line
\* that is not below it.
SpanLines(lines) == SelectSeq(lines, LAMBDA l : l.kind = "span")
SubtreeEnd(L, p) ==
    IF \E q \in (p + 1)..Len(L) : L[q].indent <= L[p].indent
    THEN CHOOSE q \in (p + 1)..Len(L) :
            /\ L[q].indent <= L[p].indent
            /\ \A x \in (p + 1)..(q - 1) : L[x].indent > L[p].indent
    ELSE Len(L) + 1
\* The spans on the lines one level below the p-th line, in line order.
DirectChildren(L, p) ==
    LET below == SelectSeq(SubSeq(L, p + 1, SubtreeEnd(L, p) - 1),
                           LAMBDA l : l.indent = L[p].indent + 1)
    IN [k \in 1..Len(below) |-> below[k].span]

\* C18: the roots and the children of every parent keep the order of the
\* input list, and the text is the depth-first traversal in that order:
\* the root lines are the roots in order, and under the line of a span come
\* its children in order, each followed by its own subtree.
C18_StableOrderDepthFirst ==
    (pc = "rendered" /\ result.kind = "hierarchy") =>
        LET L == SpanLines(result.lines) IN
        /\ Increasing(result.roots)
        /\ \A id \in DOMAIN result.children : Increasing(result.children[id])
        /\ SelectSeq(L, LAMBDA l : l.indent = 0)
                = [k \in 1..Len(result.roots) |-> Line("span", result.roots[k], 0)]
        /\ \A p \in 1..Len(L) :
            DirectChildren(L, p) = result.children[traces[L[p].span].span_id]

\* [a (no parent), b (parent a), c (parent a)]
C18_Witness ==
    /\ pc = "rendered"
    /\ result.kind = "hierarchy"
    /\ Len(traces) = 3
    /\ traces[1].span_id = A /\ traces[1].parent_id = None
    /\ traces[2].span_id = B /\ traces[2].parent_id = A
    /\ traces[3].span_id = C /\ traces[3].parent_id = A
    /\ result.roots = <<1>>
    /\ result.children[A] = <<2, 3>>
    /\ SpanLines(result.lines) = <<Line("span", 1, 0), Line("span", 2, 1), Line("span", 3, 1)>>

\* C19: the spans the summary takes for roots of a trace are the spans the
\* hierarchy builder takes for roots.
C19_SummaryRootsAreHierarchyRoots ==
    (pc = "rendered" /\ result.kind = "summary") =>
        {i \in 1..Len(traces) :
            \E g \in 1..Len(result.groups) : InSeq(i, result.groups[g].root_spans)}
          = {i \in 1..Len(traces) : InSeq(i, root_traces(traces))}

\* An invocation with format=json has returned a result that is no error.
JsonAnswered ==
    pc = "done" /\ Arg(request, "format") = "json" /\ ~result.isError
\* The answer is a JSON document: the canonical spans in order, and the
\* pagination of the initial response.
IsJsonDocument ==
    /\ result.kind = "rendered"
    /\ Len(result.json.traces) = Len(traces)
    /\ \A i \in 1..Len(traces) :
        /\ result.json.traces[i].trace_id = traces[i].trace_id
        /\ result.json.traces[i].span_id = traces[i].span_id
    /\ result.json.pagination.next_cursor = PageAfter(response)
    /\ result.json.pagination.has_more
            <=> PageAfter(response) \notin {NoCursor, ""}
    /\ ~result.header
\* Zero spans with a query or filters: the empty-result guidance (line 175).
EmptyWithFilter ==
    Len(traces) = 0 /\ (Truthy(Arg(request, "query")) \/ Arg(request, "filters") # <<>>)

\* C20 as stated: every invocation with format=json that is no error returns
\* the JSON document, also when zero spans matched.
C20_JsonAlways == JsonAnswered => IsJsonDocument

\* C20 amended: an invocation with format=json that is no error returns the
\* JSON document unless zero spans matched while a query or filters were
\* given; then it returns the guidance text.
C20_JsonDocument ==
    JsonAnswered =>
        IF EmptyWithFilter THEN result.kind = "suggestion" ELSE IsJsonDocument

\* Zero spans, no query and no filters: still the JSON document.
C20_Witness ==
    /\ JsonAnswered
    /\ DOMAIN request = {"format"}
    /\ Len(traces) = 0
    /\ result.kind = "rendered"
    /\ result.json.traces = <<>>
    /\ result.json.pagination = [next_cursor |-> InitialCursor, has_more |-> TRUE]

\* The cursor line at the end of a returned text, None when there is none.
NextCursorLine(res) ==
    IF res.kind = "rendered" THEN res.next_cursor_line ELSE NoCursor
\* The cursors of the trace_id searches.
ChildCursors == {CursorOf(p) : p \in 1..MaxPages}

\* C21 as stated: the output ends with a "Next cursor: <token>" line if and
\* only if the initial response carried a non-empty meta.page.after and the
\* format is table or text; the token is the initial page's cursor.
C21_NextCursorLine ==
    pc = "done" =>
        /\ NextCursorLine(result) # NoCursor <=>
                /\ TruthyCursor(PageAfter(response))
                /\ Arg(request, "format") \in {"table", "text"}
        /\ NextCursorLine(result) # NoCursor => NextCursorLine(result) = PageAfter(response)

\* C21 amended: a rendered answer (neither an error nor the empty-result
\* guidance) ends with the cursor line if and only if the initial response
\* carried a non-empty meta.page.after and the format is not summary, json
\* or debug; the token is the initial page's cursor, never the cursor of a
\* child fetch; errors and the guidance carry no cursor line.
C21_NextCursorLineWhenRendered ==
    pc = "done" =>
        /\ result.kind = "rendered" =>
            (NextCursorLine(result) # NoCursor <=>
                /\ TruthyCursor(PageAfter(response))
                /\ Arg(request, "format") \notin {"summary", "json", "debug"})
        /\ result.kind # "rendered" => NextCursorLine(result) = NoCursor
        /\ NextCursorLine(result) # NoCursor =>
            /\ NextCursorLine(result) = PageAfter(response)
            /\ NextCursorLine(result) = InitialCursor
            /\ NextCursorLine(result) \notin ChildCursors

\* A text answer after an expansion whose last child page carried its own
\* cursor: the line names the initial page's cursor.
C21_Witness ==
    /\ pc = "done"
    /\ result.kind = "rendered"
    /\ Arg(request, "format") = "text"
    /\ Arg(request, "include_children")
    /\ fetches = 3
    /\ prev_after = CursorOf(1)
    /\ NextCursorLine(result) = InitialCursor

\* The initial fetch answered with an empty page: zero spans matched.
ZeroMatched ==
    pc = "done" /\ raised = "none" /\ result.kind # "no_response" /\ InitialData = <<>>
QueryOrFilters == Truthy(Arg(request, "query")) \/ Arg(request, "filters") # <<>>

\* C22 as stated: when zero spans matched, the result is not an error and
\* its text is the guidance message, for every combination of query and
\* filters, also when neither is given.
C22_GuidanceAlways ==
    ZeroMatched => (~result.isError /\ result.kind = "suggestion")

\* C22 amended: when zero spans matched, the result is not an error; it is
\* the guidance message (repeating the filters and the query given, listing
\* the common fields) exactly when a non-empty query or filters were given,
\* and otherwise the rendering of the empty list in the requested format;
\* the guidance is given for no other answer.
C22_GuidanceWhenFiltered ==
    /\ ZeroMatched =>
        /\ ~result.isError
        /\ result.kind = "suggestion" <=> QueryOrFilters
        /\ result.kind = "suggestion" =>
            /\ result.common_fields
            /\ result.filters = Arg(request, "filters")
            /\ Truthy(Arg(request, "query")) => result.query = Arg(request, "query")
        /\ ~QueryOrFilters => (result.kind = "rendered" /\ result.found = 0)
    /\ (pc = "done" /\ result.kind = "suggestion") => ZeroMatched

\* Zero spans for filters without a query: the guidance.
C22_Witness ==
    /\ ZeroMatched
    /\ Arg(request, "filters") # <<>>
    /\ ~Truthy(Arg(request, "query"))
    /\ result.kind = "suggestion"
    /\ result.filters = FilterMap(1, <<A>>)

\* What each renderer returns for the empty list.
EmptyOutput ==
    [table |-> format_traces_as_table(<<>>), text |-> format_traces_as_text(<<>>),
     hierarchy |-> format_traces_as_hierarchy(<<>>), summary |-> Summary(<<>>)]

\* C23: given an empty span list, each of the table, text, hierarchy and
\* summary renderers returns without raising a non-empty "no data" message,
\* and the message is distinct per renderer.
C23_EmptyMessagesDistinct ==
    (pc = "rendered" /\ traces = <<>>) =>
        /\ result.kind \notin {"TypeError", "RecursionError"}
        /\ result.text # ""
        /\ \A r \in DOMAIN EmptyOutput \ {result.renderer} :
            EmptyOutput[r].text # result.text

\* C24: get_traces keeps no state between invocations: the result of an
\* invocation is what handle_call computes in a new frame from its own
\* arguments and the upstream responses it received, whether or not an
\* earlier invocation failed or was cancelled half-way through a child
\* expansion.
C24_NoStateBetweenInvocations ==
    /\ pc = "done" =>
        /\ result = handle_call(NewFrame, history.ups).result
        /\ traces = handle_call(NewFrame, history.ups).traces
    /\ pc \in {"initial", "child"} => handle_call(NewFrame, history.ups).pc = pc
    /\ pc = "child" => trace_ids_seen = handle_call(NewFrame, history.ups).trace_ids_seen

\* After a failed invocation and one cancelled in the expansion of t1, an
\* invocation expands t1 again and returns its spans.
C24_Witness ==
    /\ pc = "done"
    /\ history.earlier = {"failed", "abandoned"}
    /\ Arg(request, "include_children")
    /\ Len(history.ups) = 3
    /\ result.kind = "rendered"
    /\ result.found = 4
    /\ trace_ids_seen = {T1}

\* A summary has been made of a span list.
Summarised == pc = "rendered" /\ result.kind = "summary"
RECURSIVE SumLen(_)
SumLen(groups) == IF groups = <<>> THEN 0 ELSE Len(Head(groups).spans) + SumLen(Tail(groups))
\* The span at position i of the list comes before the span at position j
\* in the order of the slowest spans.
Slower(i, j) ==
    \/ traces[i].duration_ms > traces[j].duration_ms
    \/ traces[i].duration_ms = traces[j].duration_ms /\ i < j
OpCount(g, op) == Cardinality({k \in 1..Len(g.spans) : traces[g.spans[k]].operation_name = op})
FirstSeen(g, op) ==
    CHOOSE k \in 1..Len(g.spans) :
        /\ traces[g.spans[k]].operation_name = op
        /\ \A j \in 1..(k - 1) : traces[g.spans[j]].operation_name # op
\* The operation a comes before the operation b in the span breakdown.
MoreCommon(g, a, b) ==
    \/ OpCount(g, a) > OpCount(g, b)
    \/ OpCount(g, a) = OpCount(g, b) /\ FirstSeen(g, a) < FirstSeen(g, b)
OpsOf(g) == {traces[g.spans[k]].operation_name : k \in 1..Len(g.spans)}

\* C25: the summary lists, per unique trace_id, at most 5 spans in descending
\* order of duration_ms with ties kept in input order, and at most 10
\* operation names in descending order of their span count with ties kept
\* in first-seen order; the per-trace span counts add up to the total span
\* count.
C25_SummaryTopLists ==
    Summarised =>
        /\ result.total = Len(traces)
        /\ SumLen(result.groups) = result.total
        /\ \A g, h \in 1..Len(result.groups) :
            g # h => result.groups[g].trace_id # result.groups[h].trace_id
        /\ \A x \in 1..Len(result.groups) :
            LET g == result.groups[x]
                listed == {g.slowest[k] : k \in 1..Len(g.slowest)}
                shown == {g.operations[k].op : k \in 1..Len(g.operations)}
            IN /\ \A k \in 1..Len(g.spans) : traces[g.spans[k]].trace_id = g.trace_id
               /\ Len(g.slowest) = Min(5, Len(g.spans))
               /\ Cardinality(listed) = Len(g.slowest)
               /\ \A k \in 1..Len(g.slowest) : InSeq(g.slowest[k], g.spans)
               /\ \A k \in 1..(Len(g.slowest) - 1) : Slower(g.slowest[k], g.slowest[k + 1])
               /\ \A k \in 1..Len(g.spans) :
                    g.spans[k] \notin listed => \A i \in listed : Slower(i, g.spans[k])
               /\ Len(g.operations) = Min(10, Cardinality(OpsOf(g)))
               /\ Cardinality(shown) = Len(g.operations)
               /\ \A k \in 1..Len(g.operations) :
                    /\ g.operations[k].op \in OpsOf(g)
                    /\ g.operations[k].count = OpCount(g, g.operations[k].op)
               /\ \A k \in 1..(Len(g.operations) - 1) :
                    MoreCommon(g, g.operations[k].op, g.operations[k + 1].op)
               /\ \A b \in OpsOf(g) \ shown : \A a \in shown : MoreCommon(g, a, b)

\* Twelve spans of one trace with eleven operation names: ten names are
\* shown, and the fifth slowest span ties with a span that is not shown.
C25_Witness ==
    /\ Summarised
    /\ Len(traces) = 12
    /\ Len(result.groups) = 1
    /\ Cardinality(OpsOf(result.groups[1])) = 11
    /\ Len(result.groups[1].operations) = 10
    /\ result.groups[1].operations[1].count = 2
    /\ Len(result.groups[1].slowest) = 5
    /\ \E k \in 1..12 :
        /\ ~InSeq(k, result.groups[1].slowest)
        /\ traces[k].duration_ms = traces[result.groups[1].slowest[5]].duration_ms

Served == pc = "served"
HandlerCalled ==
    result.calls = <<[handler |-> request.name,
                      request |-> [name |-> request.name, arguments |-> request.arguments]]>>

\* C26 as stated: handle_call_tool never raises; an unregistered name yields
\* the one text item "Unknown tool: <name>" without a handler call, a handler
\* that raises yields the one text item "Error: <message>", and otherwise the
\* handler's content list is returned; a registered handler is called once
\* with the given name and arguments.
C26_NeverRaises ==
    Served =>
        /\ result.kind = "returned"
        /\ request.name \notin TOOLS =>
            /\ result.content = <<TextContent("Unknown tool: ", request.name)>>
            /\ result.calls = <<>>
        /\ request.name \in TOOLS =>
            /\ HandlerCalled
            /\ IF fcall.up \in {"Exception", "CancelledError"}
               THEN result.content = <<TextContent("Error: ", fcall.msg)>>
               ELSE result.content = fcall.content

\* C26 amended: handle_call_tool raises no Exception; an unregistered name
\* yields the one text item "Unknown tool: <name>" without a handler call; a
\* registered handler is called once with the given name and arguments, and
\* then an Exception it raises yields the one text item "Error: <message>",
\* a result with a content list yields that list, a result without content
\* yields the one text item "Unexpected response format", and a cancellation
\* (not an Exception) leaves handle_call_tool.
C26_DispatchOutcomes ==
    Served =>
        /\ request.name \notin TOOLS =>
            /\ result.kind = "returned"
            /\ result.content = <<TextContent("Unknown tool: ", request.name)>>
            /\ result.calls = <<>>
        /\ request.name \in TOOLS =>
            /\ HandlerCalled
            /\ result.kind = "raised" <=> fcall.up = "CancelledError"
            /\ fcall.up = "Exception" =>
                result.content = <<TextContent("Error: ", fcall.msg)>>
            /\ fcall.up = "result" => result.content = fcall.content
            /\ fcall.up = "no_content" =>
                result.content = <<TextContent("Unexpected response format", "")>>

\* The handler of get_traces raised Exception("boom").
C26_Witness ==
    /\ Served
    /\ request.name = "get_traces"
    /\ fcall.up = "Exception"
    /\ fcall.msg = "boom"
    /\ result = [kind |-> "returned", content |-> <<TextContent("Error: ", "boom")>>,
                 calls |-> <<[handler |-> "get_traces",
                              request |-> [name |-> "get_traces",
                                           arguments |-> request.arguments]]>>]

\* The argument is missing (absent or null) or empty.
ArgMissing(key) == key \notin DOMAIN request \/ request[key] \in {"None", ""}

\* C27: when dashboard_id or new_title is missing or empty, the result of
\* dashboard_update_title.handle_call is flagged as an error with a text
\* naming the missing field, and update_dashboard_title is not invoked;
\* validation precedes any upstream call.
C27_ValidationPrecedesUpdate ==
    pc = "updated" =>
        /\ ArgMissing("dashboard_id") =>
            /\ result.isError
            /\ result.text = <<"Error: ", "dashboard_id is required">>
            /\ result.updates = <<>>
        /\ (~ArgMissing("dashboard_id") /\ ArgMissing("new_title")) =>
            /\ result.isError
            /\ result.text = <<"Error: ", "new_title is required">>
            /\ result.updates = <<>>
        /\ result.updates # <<>> =>
            /\ ~ArgMissing("dashboard_id")
            /\ ~ArgMissing("new_title")
            /\ result.updates = <<[dashboard_id |-> request.dashboard_id,
                                   new_title |-> request.new_title]>>

\* An empty dashboard_id with a title: the error names dashboard_id.
C27_Witness ==
    /\ pc = "updated"
    /\ request = [dashboard_id |-> "", new_title |-> "New Title"]
    /\ result.isError
    /\ result.text = <<"Error: ", "dashboard_id is required">>
    /\ result.updates = <<>>

\* The spans of the trace t in a raw span list.
SpansOfTrace(spans, t) ==
    SelectSeq(spans, LAMBDA x : ~IsNull(x) /\ AttrGet(x, "trace_id", None) = t)

\* C28: with include_children, an initial span is copied into the expanded
\* span list only if its trace_id is empty or missing or the first child
\* fetch of its trace returned no data; for a trace whose expansion returned
\* data, the expanded list holds exactly the spans of that trace's fetched
\* pages, no span more often than in those pages.
C28_OnlyFallbackSpansCopied ==
    (pc = "done" /\ raised = "none" /\ ExpandsChildren(request, InitialData)) =>
        /\ \A i \in 1..Len(InitialData) :
            InSeq(InitialData[i], trace_events) =>
                \/ ~Truthy(AttrGet(InitialData[i], "trace_id", None))
                \/ InitialData[i].trace_id \in first_empty
        /\ \A t \in TraceIds :
            fetched[t] # <<>> =>
                /\ SpansOfTrace(trace_events, t) = fetched[t]
                /\ \A j \in 1..Len(trace_events) :
                    AttrGet(trace_events[j], "trace_id", None) = t =>
                        Occurrences(trace_events, trace_events[j])
                            <= Occurrences(fetched[t], trace_events[j])

DistinctIds == \A i, j \in 1..Len(traces) : i # j => traces[i].span_id # traces[j].span_id
\* The position of the parent of the span at position i, 0 when it has no
\* parent in the list.
ParentOf(i) ==
    IF \E j \in 1..Len(traces) : traces[j].span_id = traces[i].parent_id
    THEN CHOOSE j \in 1..Len(traces) : traces[j].span_id = traces[i].parent_id
    ELSE 0
\* The number of parent links that lead from position i to a span without a
\* parent in the list, counted up to `fuel` links.
RECURSIVE LinksUp(_, _)
LinksUp(i, fuel) ==
    IF fuel = 0 \/ ParentOf(i) = 0 THEN 0 ELSE 1 + LinksUp(ParentOf(i), fuel - 1)
Acyclic == \A i \in 1..Len(traces) : LinksUp(i, Len(traces)) < Len(traces)

\* C29: for a span list with pairwise distinct span_ids and no cycle among
\* the parent links, the roots and the children lists partition the input,
\* and the traversal from the roots emits every span exactly once, at a
\* depth equal to the number of its ancestors in the list.
C29_EachSpanOnce ==
    (Built /\ DistinctIds /\ Acyclic) =>
        LET L == SpanLines(result.lines) IN
        /\ result.kind = "hierarchy"
        /\ \A i \in 1..Len(traces) :
            /\ Cardinality({k \in 1..Len(L) : L[k].span = i}) = 1
            /\ \A k \in 1..Len(L) : L[k].span = i => L[k].indent = LinksUp(i, Len(traces))
            /\ Cardinality({k \in 1..Len(result.roots) : result.roots[k] = i})
                + Cardinality({<<id, k>> \in (DOMAIN result.children) \X (1..Len(traces)) :
                                  k <= Len(result.children[id]) /\ result.children[id][k] = i})
                    = 1
        /\ Len(L) = Len(traces)

\* [c (parent b), b (parent a), a (no parent)]: a chain listed leaf first.
C29_Witness ==
    /\ Built
    /\ Len(traces) = 3
    /\ traces[1].span_id = C /\ traces[1].parent_id = B
    /\ traces[2].span_id = B /\ traces[2].parent_id = A
    /\ traces[3].span_id = A /\ traces[3].parent_id = None
    /\ SpanLines(result.lines) = <<Line("span", 3, 0), Line("span", 2, 1), Line("span", 1, 2)>>

\* C30: format_traces_as_hierarchy terminates on every finite span list,
\* also when parent links form a cycle, a span names itself as parent or
\* two spans share a span_id: the traversal from the roots visits no span
\* unboundedly often.
C30_HierarchyTerminates ==
    Built =>
        /\ result.kind # "RecursionError"
        /\ \A k \in 1..Len(result.lines) : result.lines[k].kind # "RecursionError"

====
